---- MODULE Spec2Model ----
(***************************************************************************)
(* Model of the text-level preprocessor of sugarcube (crate sc_parser):    *)
(* the operator pass (operator_pass.rs), the HKT pass (hkt_pass.rs), the   *)
(* shared lexical helpers (util.rs) and the orchestrator (preprocess.rs).  *)
(*                                                                         *)
(* A source text is a sequence of characters; a character is a one-letter  *)
(* string, except the two non-ASCII letters "U+00E9" and "U+4E2D" that     *)
(* stand for a 2-byte and a 3-byte UTF-8 scalar.  Positions named i, j are *)
(* 0-based character indexes as in the Rust code; byte offsets are kept    *)
(* apart from them and converted with char_offset_to_byte.  The backtick  *)
(* cannot be written in a TLA+ string and is the character BT.            *)
(***************************************************************************)
EXTENDS Integers, Sequences, FiniteSets, TLC

\* fn: the entry point called; source, syntax: its arguments; result,
\* iterations, decls, usages: the locals of the running functions; pc: where
\* the call stands; input: how the source text was put together (never read
\* by an action).
VARIABLES fn, source, syntax, result, iterations, decls, usages, pc, input

vars == <<fn, source, syntax, result, iterations, decls, usages, pc, input>>

(***************************************************************************)
(* Characters                                                              *)
(***************************************************************************)
Lower == {"a", "b", "c", "d", "e", "f", "g", "h", "i", "j", "k", "l", "m",
          "n", "o", "p", "q", "r", "s", "t", "u", "v", "w", "x", "y", "z"}

Upper == {"A", "B", "C", "D", "E", "F", "G", "H", "I", "J", "K", "L", "M",
          "N", "O", "P", "Q", "R", "S", "T", "U", "V", "W", "X", "Y", "Z"}

Digit == {"0", "1", "2", "3", "4", "5", "6", "7", "8", "9"}

WideLetter == {"U+00E9", "U+4E2D"}

is_whitespace(c) == c \in {" ", "\n", "\t", "\r"}

is_alphabetic(c) == c \in Lower \cup Upper \cup WideLetter

is_alphanumeric(c) == is_alphabetic(c) \/ c \in Digit

is_ascii_uppercase(c) == c \in Upper

len_utf8(c) == IF c = "U+00E9" THEN 2 ELSE IF c = "U+4E2D" THEN 3 ELSE 1

\* chars[i] of the Rust code (0-based).
At(chars, i) == chars[i + 1]

\* chars[a..b] of the Rust code (0-based, half-open).
Slice(chars, a, b) == SubSeq(chars, a + 1, b)

Last(s) == s[Len(s)]

Pop(s) == SubSeq(s, 1, Len(s) - 1)

SetLast(s, v) == [s EXCEPT ![Len(s)] = v]

None == -1

\* The template-literal delimiter (U+0060).
BT == "backtick"

(***************************************************************************)
(* util.rs                                                                 *)
(***************************************************************************)
\* Loops over the buffer are iterated by doubling: X_iter(.., st, k) runs the
\* loop body X_step at most 2^k times from the loop state st and stops as
\* soon as the loop condition fails.  Levels(n) is the least k with
\* 2^k >= n, so Levels(n) levels run a loop of at most n passes to its end.
RECURSIVE Levels(_)
Levels(n) == IF n <= 1 THEN 0 ELSE 1 + Levels((n + 1) \div 2)

\* The sum of len_utf8 over chars[a..b].
RECURSIVE utf8_len(_, _, _)
utf8_len(chars, a, b) ==
    IF b <= a THEN 0
    ELSE IF b = a + 1 THEN len_utf8(At(chars, a))
    ELSE utf8_len(chars, a, (a + b) \div 2) + utf8_len(chars, (a + b) \div 2, b)

char_offset_to_byte(chars, char_idx) == utf8_len(chars, 0, char_idx)

\* The character index a byte offset of a &str falls on, or None when the
\* offset is past the end or inside a multi-byte character (where slicing
\* the str panics).  The loop state is [i, acc]: acc bytes precede chars[i].
RECURSIVE byte_to_char_iter(_, _, _, _)
byte_to_char_iter(chars, byte, st, k) ==
    IF ~(st.acc < byte /\ st.i < Len(chars)) THEN st
    ELSE IF k = 0 THEN [i |-> st.i + 1, acc |-> st.acc + len_utf8(At(chars, st.i))]
    ELSE byte_to_char_iter(chars, byte, byte_to_char_iter(chars, byte, st, k - 1), k - 1)

byte_to_char(chars, byte) ==
    LET st == byte_to_char_iter(chars, byte, [i |-> 0, acc |-> 0], Levels(Len(chars)))
    IN  IF st.acc = byte THEN st.i ELSE None

\* &s[a..b] on byte offsets: defined only on character boundaries, a <= b.
str_slice_ok(chars, a, b) ==
    /\ a <= b
    /\ byte_to_char(chars, a) # None
    /\ byte_to_char(chars, b) # None

str_slice(chars, a, b) == Slice(chars, byte_to_char(chars, a), byte_to_char(chars, b))

str_len(chars) == char_offset_to_byte(chars, Len(chars))

RECURSIVE trim_start(_)
trim_start(s) ==
    IF s # <<>> /\ is_whitespace(Head(s)) THEN trim_start(Tail(s)) ELSE s

RECURSIVE trim_end(_)
trim_end(s) ==
    IF s # <<>> /\ is_whitespace(Last(s)) THEN trim_end(Pop(s)) ELSE s

trim(s) == trim_end(trim_start(s))

\* Line comment: `while j < len && chars[j] != '\n' { j += 1 }`, then j + 1.
RECURSIVE line_comment_iter(_, _, _)
line_comment_iter(chars, j, k) ==
    IF ~(j < Len(chars) /\ At(chars, j) # "\n") THEN j
    ELSE IF k = 0 THEN j + 1
    ELSE line_comment_iter(chars, line_comment_iter(chars, j, k - 1), k - 1)

line_comment_end(chars, j) == line_comment_iter(chars, j, Levels(Len(chars))) + 1

\* Block comment: after the first */, the end of the buffer when it is
\* missing.  The loop state is [j, ret].
block_comment_step(chars, st) ==
    IF At(chars, st.j) = "*" /\ At(chars, st.j + 1) = "/"
    THEN [st EXCEPT !.ret = st.j + 2]
    ELSE [st EXCEPT !.j = st.j + 1]

RECURSIVE block_comment_iter(_, _, _)
block_comment_iter(chars, st, k) ==
    IF ~(st.ret = None /\ st.j + 1 < Len(chars)) THEN st
    ELSE IF k = 0 THEN block_comment_step(chars, st)
    ELSE block_comment_iter(chars, block_comment_iter(chars, st, k - 1), k - 1)

\* Mutant: a block comment without its terminator taken as ended at once.
block_comment_end_empty(chars, j) ==
    LET st == block_comment_iter(chars, [j |-> j, ret |-> None], Levels(Len(chars)))
    IN  IF st.ret # None THEN st.ret ELSE j

block_comment_end(chars, j) ==
    LET st == block_comment_iter(chars, [j |-> j, ret |-> None], Levels(Len(chars)))
    IN  IF st.ret # None THEN st.ret ELSE Len(chars)

\* String literal: j stops on the closing quote or at/after the end.
RECURSIVE string_iter(_, _, _, _)
string_iter(chars, quote, j, k) ==
    IF ~(j < Len(chars) /\ At(chars, j) # quote) THEN j
    ELSE IF k = 0 THEN (IF At(chars, j) = "\\" THEN j + 1 ELSE j) + 1
    ELSE string_iter(chars, quote, string_iter(chars, quote, j, k - 1), k - 1)

string_scan(chars, quote, j) == string_iter(chars, quote, j, Levels(Len(chars)))

string_end(chars, i) ==
    LET j == string_scan(chars, At(chars, i), i + 1)
    IN  IF j < Len(chars) THEN j + 1 ELSE j

\* util::skip_non_code: comments and strings, no regex literals.
util_skip_non_code(chars, i) ==
    IF i >= Len(chars) THEN Len(chars)
    ELSE IF At(chars, i) = "/" /\ i + 1 < Len(chars) /\ At(chars, i + 1) = "/"
         THEN line_comment_end(chars, i + 2)
    ELSE IF At(chars, i) = "/" /\ i + 1 < Len(chars) /\ At(chars, i + 1) = "*"
         THEN block_comment_end(chars, i + 2)
    ELSE IF At(chars, i) = "\"" \/ At(chars, i) = "'"
         THEN string_end(chars, i)
    ELSE None

(***************************************************************************)
(* operator_pass.rs: lexical helpers                                       *)
(***************************************************************************)
Pipeline == "Pipeline"

Cons == "Cons"

\* Mutant: cons given the precedence of pipeline.
precedence_flat(op) == 1

precedence(op) == IF op = Pipeline THEN 1 ELSE 5

\* Mutant: pipeline taken as right-associative too.
is_right_assoc_always(op) == TRUE

\* Mutant: cons taken as left-associative too.
is_right_assoc_never(op) == FALSE

is_right_assoc(op) == IF op = Pipeline THEN FALSE ELSE TRUE

text(op) == IF op = Pipeline THEN <<"|", ">">> ELSE <<":", ":">>

is_ident_char(c) == is_alphanumeric(c) \/ c = "_" \/ c = "$"

is_word_start(chars, i) ==
    IF ~is_alphabetic(At(chars, i)) /\ At(chars, i) # "_" /\ At(chars, i) # "$"
    THEN FALSE
    ELSE IF i > 0 /\ is_ident_char(At(chars, i - 1)) THEN FALSE
    ELSE TRUE

RECURSIVE scan_word(_, _)
scan_word(chars, i) ==
    IF i < Len(chars) /\ is_ident_char(At(chars, i)) THEN scan_word(chars, i + 1)
    ELSE i

RegexPrevChars ==
    {"(", "[", "{", ",", ";", ":", "=", "!", "&", "|", "?", "+", "-", "*", "%",
     "^", "~", "<", ">"}

RegexKeywords ==
    { <<"r", "e", "t", "u", "r", "n">>,
      <<"c", "a", "s", "e">>,
      <<"t", "h", "r", "o", "w">>,
      <<"i", "n">>,
      <<"o", "f">>,
      <<"t", "y", "p", "e", "o", "f">>,
      <<"v", "o", "i", "d">>,
      <<"d", "e", "l", "e", "t", "e">>,
      <<"n", "e", "w">>,
      <<"e", "l", "s", "e">>,
      <<"d", "o">>,
      <<"i", "n", "s", "t", "a", "n", "c", "e", "o", "f">>,
      <<"y", "i", "e", "l", "d">>,
      <<"a", "w", "a", "i", "t">> }

RECURSIVE skip_ws_back(_, _)
skip_ws_back(chars, j) ==
    IF j > 0 /\ is_whitespace(At(chars, j - 1)) THEN skip_ws_back(chars, j - 1)
    ELSE j

RECURSIVE word_start_back(_, _)
word_start_back(chars, ws) ==
    IF ws > 0 /\ is_ident_char(At(chars, ws - 1)) THEN word_start_back(chars, ws - 1)
    ELSE ws

is_regex_context(chars, i) ==
    LET j == skip_ws_back(chars, i)
    IN  IF j = 0 THEN TRUE
        ELSE LET prev == At(chars, j - 1)
             IN  IF prev \in RegexPrevChars THEN TRUE
                 ELSE IF is_alphabetic(prev) \/ prev = "_" \/ prev = "$"
                      THEN Slice(chars, word_start_back(chars, j - 1), j) \in RegexKeywords
                 ELSE FALSE

RegexFlags == {"g", "i", "m", "s", "u", "y", "d", "v"}

RECURSIVE scan_regex_flags(_, _)
scan_regex_flags(chars, j) ==
    IF j < Len(chars) /\ At(chars, j) \in RegexFlags THEN scan_regex_flags(chars, j + 1)
    ELSE j

\* The body loop of scan_regex_literal; the loop state is
\* [j, in_char_class, ret, stop]: ret is Some(j) returned, stop a returned None.
regex_step(chars, st) ==
    LET j == st.j
        c == At(chars, j)
    IN  IF c = "\n" \/ c = "\r" THEN [st EXCEPT !.stop = TRUE]
        ELSE IF c = "\\" /\ j + 1 < Len(chars) THEN [st EXCEPT !.j = j + 2]
        ELSE IF c = "[" /\ ~st.in_char_class
        THEN [st EXCEPT !.in_char_class = TRUE, !.j = j + 1]
        ELSE IF c = "]" /\ st.in_char_class
        THEN [st EXCEPT !.in_char_class = FALSE, !.j = j + 1]
        ELSE IF c = "/" /\ ~st.in_char_class
        THEN [st EXCEPT !.ret = scan_regex_flags(chars, j + 1)]
        ELSE [st EXCEPT !.j = j + 1]

RECURSIVE regex_iter(_, _, _)
regex_iter(chars, st, k) ==
    IF ~(st.ret = None /\ ~st.stop /\ st.j < Len(chars)) THEN st
    ELSE IF k = 0 THEN regex_step(chars, st)
    ELSE regex_iter(chars, regex_iter(chars, st, k - 1), k - 1)

scan_regex_literal(chars, i) ==
    IF i >= Len(chars) \/ At(chars, i) # "/" THEN None
    ELSE regex_iter(chars,
                    [j |-> i + 1, in_char_class |-> FALSE, ret |-> None, stop |-> FALSE],
                    Levels(Len(chars))).ret

\* operator_pass::skip_non_code: comments, regex literals and strings.
skip_non_code(chars, i) ==
    IF i >= Len(chars) THEN Len(chars)
    ELSE IF At(chars, i) = "/" /\ i + 1 < Len(chars) /\ At(chars, i + 1) = "/"
         THEN line_comment_end(chars, i + 2)
    ELSE IF At(chars, i) = "/" /\ i + 1 < Len(chars) /\ At(chars, i + 1) = "*"
         THEN block_comment_end(chars, i + 2)
    ELSE IF /\ At(chars, i) = "/"
            /\ is_regex_context(chars, i)
            /\ scan_regex_literal(chars, i) # None
         THEN scan_regex_literal(chars, i)
    ELSE IF At(chars, i) = "\"" \/ At(chars, i) = "'"
         THEN string_end(chars, i)
    ELSE None

(***************************************************************************)
(* operator_pass.rs: occurrence search                                     *)
(***************************************************************************)
in_type_context(type_depth, angle_depth, in_type_alias, in_interface) ==
    type_depth > 0 \/ angle_depth > 0 \/ in_type_alias \/ in_interface

\* i32::saturating_sub(1): i32::MIN is -2^31.
saturating_dec(n) == IF n <= -2147483647 - 1 THEN n ELSE n - 1

\* The scan state of find_operator_occurrences before its loop.
ScanInit ==
    [ i |-> 0,
      type_annotation_depth |-> 0,
      angle_bracket_depth |-> 0,
      in_type_alias |-> FALSE,
      in_interface |-> FALSE,
      template_stack |-> <<>>,
      occurrences |-> <<>> ]

OpOccurrence(op, chars, i) ==
    [ op |-> op,
      byte_start |-> char_offset_to_byte(chars, i),
      byte_end |-> char_offset_to_byte(chars, i + 2) ]

\* Lines 168-186: a word; `type` and `interface` set their flag.
scan_keyword(chars, st) ==
    LET word_end == scan_word(chars, st.i)
        word == Slice(chars, st.i, word_end)
    IN  IF word = <<"t", "y", "p", "e">>
        THEN [st EXCEPT !.in_type_alias = TRUE, !.type_annotation_depth = 0,
                        !.i = word_end]
        ELSE IF word = <<"i", "n", "t", "e", "r", "f", "a", "c", "e">>
        THEN [st EXCEPT !.in_interface = TRUE, !.type_annotation_depth = 0,
                        !.i = word_end]
        ELSE [st EXCEPT !.i = word_end]

\* Lines 188-270: the match on a live-code character.
scan_char(chars, syn, st) ==
    LET i == st.i
        c == At(chars, i)
        typed == in_type_context(st.type_annotation_depth, st.angle_bracket_depth,
                                 st.in_type_alias, st.in_interface)
    IN  IF c = ";"
        THEN [st EXCEPT !.type_annotation_depth = 0, !.in_type_alias = FALSE,
                        !.in_interface = FALSE, !.i = i + 1]
        ELSE IF c = ":"
        THEN IF i + 1 < Len(chars) /\ At(chars, i + 1) = ":"
             THEN IF syn.cons /\ ~typed
                  THEN [st EXCEPT !.occurrences = Append(@, OpOccurrence(Cons, chars, i)),
                                  !.i = i + 2]
                  ELSE [st EXCEPT !.i = i + 2]
             ELSE [st EXCEPT !.type_annotation_depth = @ + 1, !.i = i + 1]
        ELSE IF c = "|"
        THEN IF i + 1 < Len(chars) /\ At(chars, i + 1) = ">"
             THEN IF syn.pipeline /\ ~typed
                  THEN [st EXCEPT !.occurrences = Append(@, OpOccurrence(Pipeline, chars, i)),
                                  !.i = i + 2]
                  ELSE [st EXCEPT !.i = i + 2]
             ELSE [st EXCEPT !.i = i + 1]
        ELSE IF c = "<"
        THEN IF i > 0 /\ (is_alphanumeric(At(chars, i - 1)) \/ At(chars, i - 1) = "_")
             THEN [st EXCEPT !.angle_bracket_depth = @ + 1, !.i = i + 1]
             ELSE [st EXCEPT !.i = i + 1]
        ELSE IF c = ">"
        THEN IF st.angle_bracket_depth > 0
             THEN [st EXCEPT !.angle_bracket_depth = @ - 1, !.i = i + 1]
             ELSE [st EXCEPT !.i = i + 1]
        ELSE IF c \in {"=", ")", "}", ","}
        THEN IF ~st.in_type_alias
             THEN [st EXCEPT !.type_annotation_depth = saturating_dec(@), !.i = i + 1]
             ELSE [st EXCEPT !.i = i + 1]
        ELSE IF c = "{"
        THEN IF st.in_interface THEN [st EXCEPT !.i = i + 1]
             ELSE [st EXCEPT !.type_annotation_depth = 0, !.i = i + 1]
        ELSE [st EXCEPT !.i = i + 1]

\* Mutant: a `}` never ends an interpolation.
track_braces_unclosed(chars, st) ==
    IF st.template_stack # <<>> /\ Last(st.template_stack) > 0 /\ At(chars, st.i) = "{"
    THEN [st EXCEPT !.template_stack = SetLast(@, Last(@) + 1)]
    ELSE st

\* Lines 141-158: brace tracking of the top frame inside an interpolation.
track_braces(chars, st) ==
    IF st.template_stack # <<>> /\ Last(st.template_stack) > 0
    THEN IF At(chars, st.i) = "{"
         THEN [st EXCEPT !.template_stack = SetLast(@, Last(@) + 1)]
         ELSE IF At(chars, st.i) = "}"
         THEN [st EXCEPT !.template_stack = SetLast(@, Last(@) - 1)]
         ELSE st
    ELSE st

\* One pass of the while loop of find_operator_occurrences (lines 104-271).
scan_step(chars, syn, st) ==
    LET i == st.i
        c == At(chars, i)
    IN  IF st.template_stack # <<>> /\ Last(st.template_stack) = 0
        THEN IF c = "\\" /\ i + 1 < Len(chars) THEN [st EXCEPT !.i = i + 2]
             ELSE IF c = "$" /\ i + 1 < Len(chars) /\ At(chars, i + 1) = "{"
             THEN [st EXCEPT !.template_stack = SetLast(@, 1), !.i = i + 2]
             ELSE IF c = BT
             THEN [st EXCEPT !.template_stack = Pop(@), !.i = i + 1]
             ELSE [st EXCEPT !.i = i + 1]
        ELSE IF c = BT
        THEN [st EXCEPT !.template_stack = Append(@, 0), !.i = i + 1]
        ELSE LET st1 == track_braces(chars, st)
                 closed == /\ st.template_stack # <<>>
                           /\ Last(st.template_stack) > 0
                           /\ c = "}"
                           /\ Last(st1.template_stack) = 0
                 skip == skip_non_code(chars, i)
             IN  IF closed THEN [st1 EXCEPT !.i = i + 1]
                 ELSE IF skip # None THEN [st1 EXCEPT !.i = skip]
                 ELSE IF is_word_start(chars, i) THEN scan_keyword(chars, st1)
                 ELSE scan_char(chars, syn, st1)

RECURSIVE scan_iter(_, _, _, _)
scan_iter(chars, syn, st, k) ==
    IF ~(st.i < Len(chars)) THEN st
    ELSE IF k = 0 THEN scan_step(chars, syn, st)
    ELSE scan_iter(chars, syn, scan_iter(chars, syn, st, k - 1), k - 1)

scan_run(chars, syn, st) == scan_iter(chars, syn, st, Levels(Len(chars)))

\* The loop states of find_operator_occurrences in order: the state before
\* its while loop, then the state at the end of every pass.
RECURSIVE scan_trace(_, _, _)
scan_trace(chars, syn, st) ==
    IF ~(st.i < Len(chars)) THEN <<st>>
    ELSE <<st>> \o scan_trace(chars, syn, scan_step(chars, syn, st))

\* Mutant: the feature flags ignored by the occurrence search.
find_operator_occurrences_all(src, syn) ==
    scan_run(src, [pipeline |-> TRUE, cons |-> TRUE, hkt |-> TRUE], ScanInit).occurrences

find_operator_occurrences(src, syn) == scan_run(src, syn, ScanInit).occurrences

(***************************************************************************)
(* operator_pass.rs: selection and operand boundaries                      *)
(***************************************************************************)
\* The comparator of select_next_operator: "Less", "Equal" or "Greater".
cmp(x, y) == IF x < y THEN "Less" ELSE IF x > y THEN "Greater" ELSE "Equal"

select_compare(a, b) ==
    LET prec_cmp == cmp(precedence(a.op), precedence(b.op))
    IN  IF prec_cmp # "Equal" THEN prec_cmp
        ELSE IF is_right_assoc(a.op) THEN cmp(a.byte_start, b.byte_start)
        ELSE cmp(b.byte_start, a.byte_start)

\* Iterator::max_by: the last of the maximal elements.
RECURSIVE max_by(_, _, _)
max_by(occs, k, best) ==
    IF k > Len(occs) THEN best
    ELSE max_by(occs, k + 1,
                IF select_compare(best, occs[k]) = "Greater" THEN best ELSE occs[k])

\* Mutant: the first occurrence in source order is selected.
select_first(occs) == occs[1]

select_next_operator(occs) == max_by(occs, 2, occs[1])

RECURSIVE skip_ws_fwd(_, _)
skip_ws_fwd(chars, p) ==
    IF p < Len(chars) /\ is_whitespace(At(chars, p)) THEN skip_ws_fwd(chars, p + 1)
    ELSE p

boundary_after(chars, pos) == char_offset_to_byte(chars, skip_ws_fwd(chars, pos))

\* The second while loop of find_left_operand (lines 315-358); the loop state
\* is [i, depth, ret], ret the byte offset returned from inside the loop.
left_step(chars, st, op) ==
    LET i == st.i - 1
        c == At(chars, i)
        depth == st.depth
        next == [st EXCEPT !.i = i]
        stop == [st EXCEPT !.i = i, !.ret = boundary_after(chars, i + 1)]
    IN  IF c \in {")", "]", "}"} THEN [next EXCEPT !.depth = depth + 1]
        ELSE IF c \in {"(", "[", "{"}
        THEN IF depth = 0 THEN stop ELSE [next EXCEPT !.depth = depth - 1]
        ELSE IF c \in {";", ","} /\ depth = 0 THEN stop
        ELSE IF c = "=" /\ depth = 0
        THEN IF i + 1 < Len(chars) /\ At(chars, i + 1) = ">" THEN next
             ELSE IF i > 0 /\ At(chars, i - 1) = "=" THEN next
             ELSE stop
        ELSE IF c = ">" /\ depth = 0 /\ i > 0 /\ At(chars, i - 1) = "|"
        THEN IF precedence(Pipeline) <= precedence(op) THEN stop ELSE next
        ELSE IF c = ":" /\ depth = 0
        THEN IF i > 0 /\ At(chars, i - 1) = ":"
             THEN IF precedence(Cons) <= precedence(op) THEN stop
                  ELSE [next EXCEPT !.i = i - 1]
             ELSE stop
        ELSE next

RECURSIVE left_iter(_, _, _, _)
left_iter(chars, st, op, k) ==
    IF ~(st.ret = None /\ st.i > 0) THEN st
    ELSE IF k = 0 THEN left_step(chars, st, op)
    ELSE left_iter(chars, left_iter(chars, st, op, k - 1), op, k - 1)

left_scan(chars, i, depth, op) ==
    LET st == left_iter(chars, [i |-> i, depth |-> depth, ret |-> None], op,
                        Levels(Len(chars)))
    IN  IF st.ret # None THEN st.ret ELSE 0

find_left_operand(src, op_start, op) ==
    LET chars == str_slice(src, 0, op_start)
    IN  left_scan(chars, skip_ws_back(chars, Len(chars)), 0, op)

\* Mutant: only round brackets change the depth of the right scan.
right_step_round_only(chars, st, op) ==
    LET i == st.i
        c == At(chars, i)
        depth == st.depth
        next == [st EXCEPT !.i = i + 1]
        stop == [st EXCEPT !.ret = i]
    IN  IF depth = 0 /\ is_whitespace(c) /\ i = 0 THEN next
        ELSE IF c = "(" THEN [next EXCEPT !.depth = depth + 1]
        ELSE IF c = ")"
        THEN IF depth = 0 THEN stop ELSE [next EXCEPT !.depth = depth - 1]
        ELSE IF c = ";" /\ depth = 0 THEN stop
        ELSE IF c = "," /\ depth = 0 THEN stop
        ELSE IF c = "|" /\ depth = 0 /\ i + 1 < Len(chars) /\ At(chars, i + 1) = ">"
        THEN IF is_right_assoc(op)
             THEN IF precedence(Pipeline) < precedence(op) THEN stop ELSE next
             ELSE IF precedence(Pipeline) <= precedence(op) THEN stop ELSE next
        ELSE IF c = ":" /\ depth = 0 /\ i + 1 < Len(chars) /\ At(chars, i + 1) = ":"
        THEN IF is_right_assoc(op)
             THEN IF precedence(Cons) < precedence(op) THEN stop
                  ELSE [next EXCEPT !.i = i + 2]
             ELSE IF precedence(Cons) <= precedence(op) THEN stop
                  ELSE [next EXCEPT !.i = i + 2]
        ELSE next

\* The while loop of find_right_operand (lines 378-422); the loop state is
\* [i, depth, ret], ret the char index of `rest` returned from inside the loop.
right_step(chars, st, op) ==
    LET i == st.i
        c == At(chars, i)
        depth == st.depth
        next == [st EXCEPT !.i = i + 1]
        stop == [st EXCEPT !.ret = i]
    IN  IF depth = 0 /\ is_whitespace(c) /\ i = 0 THEN next
        ELSE IF c \in {"(", "[", "{"} THEN [next EXCEPT !.depth = depth + 1]
        ELSE IF c \in {")", "]", "}"}
        THEN IF depth = 0 THEN stop ELSE [next EXCEPT !.depth = depth - 1]
        ELSE IF c = ";" /\ depth = 0 THEN stop
        ELSE IF c = "," /\ depth = 0 THEN stop
        ELSE IF c = "|" /\ depth = 0 /\ i + 1 < Len(chars) /\ At(chars, i + 1) = ">"
        THEN IF is_right_assoc(op)
             THEN IF precedence(Pipeline) < precedence(op) THEN stop ELSE next
             ELSE IF precedence(Pipeline) <= precedence(op) THEN stop ELSE next
        ELSE IF c = ":" /\ depth = 0 /\ i + 1 < Len(chars) /\ At(chars, i + 1) = ":"
        THEN IF is_right_assoc(op)
             THEN IF precedence(Cons) < precedence(op) THEN stop
                  ELSE [next EXCEPT !.i = i + 2]
             ELSE IF precedence(Cons) <= precedence(op) THEN stop
                  ELSE [next EXCEPT !.i = i + 2]
        ELSE next

RECURSIVE right_iter(_, _, _, _)
right_iter(chars, st, op, k) ==
    IF ~(st.ret = None /\ st.i < Len(chars)) THEN st
    ELSE IF k = 0 THEN right_step(chars, st, op)
    ELSE right_iter(chars, right_iter(chars, st, op, k - 1), op, k - 1)

right_scan(chars, i, depth, op) ==
    LET st == right_iter(chars, [i |-> i, depth |-> depth, ret |-> None], op,
                         Levels(Len(chars)))
    IN  IF st.ret # None THEN st.ret ELSE Len(chars)

find_right_operand(src, op_end, op) ==
    LET chars == str_slice(src, op_end, str_len(src))
    IN  op_end + char_offset_to_byte(chars, right_scan(chars, 0, 0, op))

BinopOpen == <<"_", "_", "b", "i", "n", "o", "p", "_", "_", "(">>

\* Mutant: the operator text is written without quotes.
format_binop_bare(left_text, op, right_text) ==
    BinopOpen \o left_text \o <<",", " ">> \o text(op) \o <<",", " ">>
              \o right_text \o <<")">>

\* format!("__binop__({}, \"{}\", {})", left_text, op.text(), right_text)
format_binop(left_text, op, right_text) ==
    BinopOpen \o left_text \o <<",", " ", "\"">> \o text(op)
              \o <<"\"", ",", " ">> \o right_text \o <<")">>

\* Mutant: the operand texts are not trimmed.
substitute_untrimmed(buf, next) ==
    LET left == find_left_operand(buf, next.byte_start, next.op)
        right == find_right_operand(buf, next.byte_end, next.op)
    IN  str_slice(buf, 0, left)
          \o format_binop(str_slice(buf, left, next.byte_start), next.op,
                          str_slice(buf, next.byte_end, right))
          \o str_slice(buf, right, str_len(buf))

\* Lines 67-81: the substitution of the selected occurrence.
substitute(buf, next) ==
    LET left == find_left_operand(buf, next.byte_start, next.op)
        right == find_right_operand(buf, next.byte_end, next.op)
        left_text == trim(str_slice(buf, left, next.byte_start))
        right_text == trim(str_slice(buf, next.byte_end, right))
    IN  str_slice(buf, 0, left)
          \o format_binop(left_text, next.op, right_text)
          \o str_slice(buf, right, str_len(buf))

max_iterations == 1000

\* Mutant: the loop leaves a newline at the end of the buffer when it finds
\* no occurrence.
loop_pass_newline(buf, syn, iters) ==
    IF iters + 1 > max_iterations THEN [buf |-> buf, brk |-> TRUE]
    ELSE LET occurrences == find_operator_occurrences(buf, syn)
         IN  IF occurrences = <<>> THEN [buf |-> buf \o <<"\n">>, brk |-> TRUE]
             ELSE [buf |-> substitute(buf, select_next_operator(occurrences)),
                   brk |-> FALSE]

\* Mutant: the loop has no cap.
loop_pass_uncapped(buf, syn, iters) ==
    LET occurrences == find_operator_occurrences(buf, syn)
    IN  IF occurrences = <<>> THEN [buf |-> buf, brk |-> TRUE]
        ELSE [buf |-> substitute(buf, select_next_operator(occurrences)),
              brk |-> FALSE]

\* One pass of the loop of rewrite_operators (lines 53-82) on the buffer buf
\* after `iters` earlier passes: the new buffer and whether the loop breaks.
loop_pass(buf, syn, iters) ==
    IF iters + 1 > max_iterations THEN [buf |-> buf, brk |-> TRUE]
    ELSE LET occurrences == find_operator_occurrences(buf, syn)
         IN  IF occurrences = <<>> THEN [buf |-> buf, brk |-> TRUE]
             ELSE [buf |-> substitute(buf, select_next_operator(occurrences)),
                   brk |-> FALSE]

RECURSIVE rewrite_loop(_, _, _)
rewrite_loop(buf, syn, iters) ==
    LET p == loop_pass(buf, syn, iters)
    IN  IF p.brk THEN p.buf ELSE rewrite_loop(p.buf, syn, iters + 1)

rewrite_operators(src, syn) == rewrite_loop(src, syn, 0)

(***************************************************************************)
(* util.rs: TemplateState                                                  *)
(***************************************************************************)
\* HandleResult: Skip(n) is the number n >= 1, Process is 0.
Process == 0

\* Mutant: a backtick seen inside an interpolation closes the literal.
handle_char_closing(stack, chars, i) ==
    LET c == At(chars, i)
    IN  IF stack = <<>>
        THEN IF c = BT THEN [stack |-> <<0>>, skip |-> 1]
             ELSE [stack |-> stack, skip |-> Process]
        ELSE IF Last(stack) = 0
        THEN IF c = "\\" /\ i + 1 < Len(chars) THEN [stack |-> stack, skip |-> 2]
             ELSE IF c = "$" /\ i + 1 < Len(chars) /\ At(chars, i + 1) = "{"
                  THEN [stack |-> SetLast(stack, 1), skip |-> 2]
             ELSE IF c = BT THEN [stack |-> Pop(stack), skip |-> 1]
             ELSE [stack |-> stack, skip |-> 1]
        ELSE IF c = BT THEN [stack |-> Pop(stack), skip |-> 1]
        ELSE IF c = "{" THEN [stack |-> SetLast(stack, Last(stack) + 1), skip |-> Process]
        ELSE IF c = "}"
             THEN [stack |-> SetLast(stack, Last(stack) - 1),
                   skip |-> IF Last(stack) - 1 = 0 THEN 1 ELSE Process]
        ELSE [stack |-> stack, skip |-> Process]

\* TemplateState::handle_char on the stack of brace depths; gives the stack
\* after the call and the HandleResult.
handle_char(stack, chars, i) ==
    LET c == At(chars, i)
    IN  IF stack = <<>>
        THEN IF c = BT THEN [stack |-> <<0>>, skip |-> 1]
             ELSE [stack |-> stack, skip |-> Process]
        ELSE IF Last(stack) = 0
        THEN IF c = "\\" /\ i + 1 < Len(chars) THEN [stack |-> stack, skip |-> 2]
             ELSE IF c = "$" /\ i + 1 < Len(chars) /\ At(chars, i + 1) = "{"
                  THEN [stack |-> SetLast(stack, 1), skip |-> 2]
             ELSE IF c = BT THEN [stack |-> Pop(stack), skip |-> 1]
             ELSE [stack |-> stack, skip |-> 1]
        ELSE IF c = BT THEN [stack |-> Append(stack, 0), skip |-> 1]
        ELSE IF c = "{" THEN [stack |-> SetLast(stack, Last(stack) + 1), skip |-> Process]
        ELSE IF c = "}"
             THEN [stack |-> SetLast(stack, Last(stack) - 1),
                   skip |-> IF Last(stack) - 1 = 0 THEN 1 ELSE Process]
        ELSE [stack |-> stack, skip |-> Process]

(***************************************************************************)
(* hkt_pass.rs                                                             *)
(***************************************************************************)
\* `while i < len && (chars[i].is_alphanumeric() || chars[i] == '_')`.
RECURSIVE type_ident_end(_, _)
type_ident_end(chars, i) ==
    IF i < Len(chars) /\ (is_alphanumeric(At(chars, i)) \/ At(chars, i) = "_")
    THEN type_ident_end(chars, i + 1)
    ELSE i

\* The backward loop of find_enclosing_scope; the loop state is
\* [j, start, brk], start is scope_start_char.
scope_back_step(chars, st) ==
    IF At(chars, st.j - 1) = "}" \/ At(chars, st.j - 1) = ";"
    THEN [j |-> st.j - 1, start |-> st.j, brk |-> TRUE]
    ELSE [st EXCEPT !.j = st.j - 1]

RECURSIVE scope_back_iter(_, _, _)
scope_back_iter(chars, st, k) ==
    IF ~(st.j > 0 /\ ~st.brk) THEN st
    ELSE IF k = 0 THEN scope_back_step(chars, st)
    ELSE scope_back_iter(chars, scope_back_iter(chars, st, k - 1), k - 1)

\* The forward loop of find_enclosing_scope; the loop state is
\* [j, depth, stack, end, brk], end is scope_end.
scope_fwd_step(chars, st) ==
    LET h == handle_char(st.stack, chars, st.j)
        s1 == [st EXCEPT !.stack = h.stack]
        skip == util_skip_non_code(chars, st.j)
        c == At(chars, st.j)
    IN  IF h.skip # Process THEN [s1 EXCEPT !.j = st.j + h.skip]
        ELSE IF skip # None THEN [s1 EXCEPT !.j = skip]
        ELSE IF c = "{" THEN [s1 EXCEPT !.depth = st.depth + 1, !.j = st.j + 1]
        ELSE IF c = "}"
             THEN IF st.depth <= 1
                  THEN [s1 EXCEPT !.end = char_offset_to_byte(chars, st.j + 1),
                                  !.brk = TRUE]
                  ELSE [s1 EXCEPT !.depth = st.depth - 1, !.j = st.j + 1]
        ELSE IF c = ";" /\ st.depth = 0
             THEN [s1 EXCEPT !.end = char_offset_to_byte(chars, st.j + 1),
                             !.brk = TRUE]
        ELSE [s1 EXCEPT !.j = st.j + 1]

RECURSIVE scope_fwd_iter(_, _, _)
scope_fwd_iter(chars, st, k) ==
    IF ~(st.j < Len(chars) /\ ~st.brk) THEN st
    ELSE IF k = 0 THEN scope_fwd_step(chars, st)
    ELSE scope_fwd_iter(chars, scope_fwd_iter(chars, st, k - 1), k - 1)

\* The byte span (scope_start, scope_end) of the declaration at pos.
find_enclosing_scope(chars, pos) ==
    LET back == scope_back_iter(chars, [j |-> pos, start |-> 0, brk |-> FALSE],
                                Levels(Len(chars)))
        fwd == scope_fwd_iter(chars, [j |-> pos, depth |-> 0, stack |-> <<>>,
                                      end |-> str_len(chars), brk |-> FALSE],
                              Levels(Len(chars)))
    IN  [start |-> char_offset_to_byte(chars, back.start), end |-> fwd.end]

\* The `_, _` loop of find_hkt_declarations (lines 95-113); the loop state
\* is [i, all, brk], all is all_underscores.
underscore_step(chars, st) ==
    LET w == skip_ws_fwd(chars, st.i)
        v == skip_ws_fwd(chars, w + 1)
    IN  IF w < Len(chars) /\ At(chars, w) = ","
        THEN IF v < Len(chars) /\ At(chars, v) = "_"
             THEN [st EXCEPT !.i = v + 1]
             ELSE [i |-> v, all |-> FALSE, brk |-> TRUE]
        ELSE [st EXCEPT !.i = w, !.brk = TRUE]

RECURSIVE underscore_loop(_, _)
underscore_loop(chars, st) ==
    IF st.brk THEN st ELSE underscore_loop(chars, underscore_step(chars, st))

HktDecl(name, remove_start, remove_end, scope) ==
    [name |-> name, remove_start |-> remove_start, remove_end |-> remove_end,
     scope_start |-> scope.start, scope_end |-> scope.end]

\* Lines 67-138 of find_hkt_declarations: chars[st.i] is an ASCII capital.
\* The loop state is [i, decls, stack].
decl_at_ident(chars, st) ==
    LET ident_start == st.i
        e == type_ident_end(chars, st.i)
        name == Slice(chars, ident_start, e)
        a == skip_ws_fwd(chars, e)
        b == skip_ws_fwd(chars, a + 1)
        u == underscore_loop(chars, [i |-> b + 1, all |-> TRUE, brk |-> FALSE])
        c == skip_ws_fwd(chars, u.i)
    IN  IF ~(a < Len(chars) /\ At(chars, a) = "<") THEN [st EXCEPT !.i = a]
        ELSE IF ~(b < Len(chars) /\ At(chars, b) = "_") THEN [st EXCEPT !.i = b]
        ELSE IF u.all /\ c < Len(chars) /\ At(chars, c) = ">"
             THEN [st EXCEPT
                     !.i = c + 1,
                     !.decls = Append(@, HktDecl(name,
                                   char_offset_to_byte(chars, a),
                                   char_offset_to_byte(chars, c + 1),
                                   find_enclosing_scope(chars, ident_start)))]
        ELSE [st EXCEPT !.i = c]

decl_step(chars, st) ==
    LET h == handle_char(st.stack, chars, st.i)
        s1 == [st EXCEPT !.stack = h.stack]
        skip == util_skip_non_code(chars, st.i)
    IN  IF h.skip # Process THEN [s1 EXCEPT !.i = st.i + h.skip]
        ELSE IF skip # None THEN [s1 EXCEPT !.i = skip]
        ELSE IF is_ascii_uppercase(At(chars, st.i)) THEN decl_at_ident(chars, s1)
        ELSE [s1 EXCEPT !.i = st.i + 1]

RECURSIVE decl_iter(_, _, _)
decl_iter(chars, st, k) ==
    IF ~(st.i < Len(chars)) THEN st
    ELSE IF k = 0 THEN decl_step(chars, st)
    ELSE decl_iter(chars, decl_iter(chars, st, k - 1), k - 1)

\* The loop states of find_hkt_declarations in order: the state before its
\* while loop, then the state at the end of every pass.
RECURSIVE decl_trace(_, _)
decl_trace(chars, st) ==
    IF ~(st.i < Len(chars)) THEN <<st>>
    ELSE <<st>> \o decl_trace(chars, decl_step(chars, st))

find_hkt_declarations(chars) ==
    decl_iter(chars, [i |-> 0, decls |-> <<>>, stack |-> <<>>],
              Levels(Len(chars))).decls

\* The loop of find_matching_angle; the loop state is [i, depth, ret, done].
angle_step(chars, st) ==
    LET c == At(chars, st.i)
    IN  IF c = "<" THEN [st EXCEPT !.depth = st.depth + 1, !.i = st.i + 1]
        ELSE IF c = ">"
             THEN IF st.depth - 1 = 0
                  THEN [st EXCEPT !.depth = 0, !.ret = st.i, !.done = TRUE]
                  ELSE [st EXCEPT !.depth = st.depth - 1, !.i = st.i + 1]
        ELSE IF c \in {";", "{", "}"} /\ st.depth <= 1
             THEN [st EXCEPT !.ret = None, !.done = TRUE]
        ELSE [st EXCEPT !.i = st.i + 1]

RECURSIVE angle_iter(_, _, _)
angle_iter(chars, st, k) ==
    IF ~(st.i < Len(chars) /\ ~st.done) THEN st
    ELSE IF k = 0 THEN angle_step(chars, st)
    ELSE angle_iter(chars, angle_iter(chars, st, k - 1), k - 1)

\* The index of the `>` closing the `<` at start, or None.
find_matching_angle(chars, start) ==
    angle_iter(chars, [i |-> start, depth |-> 0, ret |-> None, done |-> FALSE],
               Levels(Len(chars))).ret

\* The filter of find_active_decl.
in_scope(d, name, pos) ==
    d.name = name /\ pos >= d.scope_start /\ pos <= d.scope_end

\* The index in the list of the declaration find_active_decl returns (the
\* first of the narrowest), or None.
find_active_decl(ds, name, pos) ==
    LET act == { k \in 1..Len(ds) : in_scope(ds[k], name, pos) }
        key(k) == ds[k].scope_end - ds[k].scope_start
    IN  IF act = {} THEN None
        ELSE CHOOSE k \in act :
                 \A m \in act : key(k) < key(m) \/ (key(k) = key(m) /\ k <= m)

HktUsage(ident_start, end, name, args) ==
    [ident_start |-> ident_start, end |-> end, name |-> name, args |-> args]

\* Lines 166-213 of find_hkt_usages: chars[st.i] is an ASCII capital.
\* The loop state is [i, usages, stack].
usage_at_ident(chars, ds, st) ==
    LET ident_byte_start == char_offset_to_byte(chars, st.i)
        e == type_ident_end(chars, st.i)
        name == Slice(chars, st.i, e)
        a == skip_ws_fwd(chars, e)
        close == find_matching_angle(chars, a)
        inner_chars == Slice(chars, a + 1, close)
        trimmed == trim(inner_chars)
    IN  IF ~(a < Len(chars) /\ At(chars, a) = "<") THEN [st EXCEPT !.i = a]
        ELSE IF close = None THEN [st EXCEPT !.i = a]
        ELSE IF \/ trimmed = <<"_">>
                \/ \A k \in 1..Len(trimmed) :
                       trimmed[k] = "_" \/ trimmed[k] = "," \/ is_whitespace(trimmed[k])
             THEN [st EXCEPT !.i = close + 1]
        ELSE IF find_active_decl(ds, name, ident_byte_start) # None
             THEN [st EXCEPT
                     !.i = close + 1,
                     !.usages = Append(@, HktUsage(ident_byte_start,
                                    char_offset_to_byte(chars, close + 1),
                                    name, trim(inner_chars)))]
        ELSE [st EXCEPT !.i = close + 1]

usage_step(chars, ds, st) ==
    LET h == handle_char(st.stack, chars, st.i)
        s1 == [st EXCEPT !.stack = h.stack]
        skip == util_skip_non_code(chars, st.i)
    IN  IF h.skip # Process THEN [s1 EXCEPT !.i = st.i + h.skip]
        ELSE IF skip # None THEN [s1 EXCEPT !.i = skip]
        ELSE IF is_ascii_uppercase(At(chars, st.i))
             THEN usage_at_ident(chars, ds, s1)
        ELSE [s1 EXCEPT !.i = st.i + 1]

RECURSIVE usage_iter(_, _, _, _)
usage_iter(chars, ds, st, k) ==
    IF ~(st.i < Len(chars)) THEN st
    ELSE IF k = 0 THEN usage_step(chars, ds, st)
    ELSE usage_iter(chars, ds, usage_iter(chars, ds, st, k - 1), k - 1)

find_hkt_usages(chars, ds) ==
    usage_iter(chars, ds, [i |-> 0, usages |-> <<>>, stack |-> <<>>],
               Levels(Len(chars))).usages

\* format!("$<{}, {}>", usage.name, usage.args)
format_usage(name, args) == <<"$", "<">> \o name \o <<",", " ">> \o args \o <<">">>

\* The replacements pushed at lines 232-239: (start, end, text).
RECURSIVE decl_replacements(_, _)
decl_replacements(ds, k) ==
    IF k > Len(ds) THEN <<>>
    ELSE <<[start |-> ds[k].remove_start, end |-> ds[k].remove_end,
            text |-> <<>>]>> \o decl_replacements(ds, k + 1)

RECURSIVE usage_replacements(_, _)
usage_replacements(us, k) ==
    IF k > Len(us) THEN <<>>
    ELSE <<[start |-> us[k].ident_start, end |-> us[k].end,
            text |-> format_usage(us[k].name, us[k].args)]>>
         \o usage_replacements(us, k + 1)

\* sort_by(|a, b| b.0.cmp(&a.0)): stable, descending start.
RECURSIVE insert_by_start(_, _)
insert_by_start(sorted, r) ==
    IF sorted = <<>> THEN <<r>>
    ELSE IF Head(sorted).start >= r.start
         THEN <<Head(sorted)>> \o insert_by_start(Tail(sorted), r)
    ELSE <<r>> \o sorted

RECURSIVE sort_replacements(_, _, _)
sort_replacements(repls, k, sorted) ==
    IF k > Len(repls) THEN sorted
    ELSE sort_replacements(repls, k + 1, insert_by_start(sorted, repls[k]))

\* Lines 245-254: a replacement inside a kept one is dropped.
RECURSIVE filter_replacements(_, _, _)
filter_replacements(repls, k, filtered) ==
    IF k > Len(repls) THEN filtered
    ELSE filter_replacements(repls, k + 1,
             IF \E m \in 1..Len(filtered) :
                    /\ repls[k].start >= filtered[m].start
                    /\ repls[k].end <= filtered[m].end
             THEN filtered
             ELSE Append(filtered, repls[k]))

\* Lines 256-259: `&result[..start]` and `&result[end..]` panic when the
\* offset is past the end of the buffer or inside a character.
RECURSIVE apply_replacements(_, _, _)
apply_replacements(buf, repls, k) ==
    IF k > Len(repls) THEN [panicked |-> FALSE, buf |-> buf]
    ELSE IF ~(/\ str_slice_ok(buf, 0, repls[k].start)
              /\ str_slice_ok(buf, repls[k].end, str_len(buf)))
         THEN [panicked |-> TRUE, buf |-> buf]
    ELSE apply_replacements(
             str_slice(buf, 0, repls[k].start) \o repls[k].text
                 \o str_slice(buf, repls[k].end, str_len(buf)),
             repls, k + 1)

hkt_replacements(ds, us) ==
    filter_replacements(
        sort_replacements(decl_replacements(ds, 1) \o usage_replacements(us, 1),
                          1, <<>>),
        1, <<>>)

apply_hkt_replacements(src, ds, us) ==
    apply_replacements(src, hkt_replacements(ds, us), 1)

\* The value is [panicked, buf]: the returned text, or a panic.
rewrite_hkt(src) ==
    LET ds == find_hkt_declarations(src)
    IN  IF ds = <<>> THEN [panicked |-> FALSE, buf |-> src]
        ELSE apply_hkt_replacements(src, ds, find_hkt_usages(src, ds))

(***************************************************************************)
(* The state machine                                                       *)
(***************************************************************************)
SyntaxAll == [pipeline |-> TRUE, cons |-> TRUE, hkt |-> TRUE]

\* rewrite_operators(source, syntax) called: lines 49-51 have run.
CallRewriteOperators(src, syn, inp) ==
    /\ fn = "rewrite_operators"
    /\ source = src
    /\ syntax = syn
    /\ result = src
    /\ iterations = 0
    /\ decls = <<>>
    /\ usages = <<>>
    /\ pc = "op_loop"
    /\ input = inp

\* rewrite_hkt(source) called.
CallRewriteHkt(src, inp) ==
    /\ fn = "rewrite_hkt"
    /\ source = src
    /\ syntax = SyntaxAll
    /\ result = src
    /\ iterations = 0
    /\ decls = <<>>
    /\ usages = <<>>
    /\ pc = "hkt_decls"
    /\ input = inp

\* preprocess(source, syntax) called: line 18 has run.
CallPreprocess(src, syn, inp) ==
    /\ fn = "preprocess"
    /\ source = src
    /\ syntax = syn
    /\ result = src
    /\ iterations = 0
    /\ decls = <<>>
    /\ usages = <<>>
    /\ pc = "pp_hkt"
    /\ input = inp

\* Where rewrite_hkt returns to.
HktReturn == IF fn = "preprocess" THEN "pp_ops" ELSE "done"

\* rewrite_hkt, lines 33-38: the declarations; none returns the source.
HktDeclarations ==
    /\ pc = "hkt_decls"
    /\ decls' = find_hkt_declarations(result)
    /\ pc' = IF decls' = <<>> THEN HktReturn ELSE "hkt_usages"
    /\ UNCHANGED <<fn, source, syntax, result, iterations, usages, input>>

\* rewrite_hkt, line 40: the usages in scope.
HktUsages ==
    /\ pc = "hkt_usages"
    /\ usages' = find_hkt_usages(result, decls)
    /\ pc' = "hkt_apply"
    /\ UNCHANGED <<fn, source, syntax, result, iterations, decls, input>>

\* rewrite_hkt, line 42: the replacements applied, or a panic on a slice.
HktApply ==
    /\ pc = "hkt_apply"
    /\ LET r == apply_hkt_replacements(result, decls, usages)
       IN  /\ result' = r.buf
           /\ pc' = IF r.panicked THEN "panicked" ELSE HktReturn
    /\ UNCHANGED <<fn, source, syntax, iterations, decls, usages, input>>

\* Mutant: the operator pass run only when both operators are enabled.
operators_enabled_both(syn) == syn.pipeline /\ syn.cons

\* preprocess, line 24: `syntax.pipeline || syntax.cons`.
operators_enabled(syn) == syn.pipeline \/ syn.cons

\* preprocess, lines 20-22: `if syntax.hkt`.
PreprocessHkt ==
    /\ pc = "pp_hkt"
    /\ pc' = IF syntax.hkt THEN "hkt_decls" ELSE "pp_ops"
    /\ UNCHANGED <<fn, source, syntax, result, iterations, decls, usages, input>>

\* preprocess, lines 24-28: the operator pass called on the result, or the
\* result returned.
PreprocessOperators ==
    /\ pc = "pp_ops"
    /\ pc' = IF operators_enabled(syntax) THEN "op_loop" ELSE "done"
    /\ iterations' = 0
    /\ UNCHANGED <<fn, source, syntax, result, decls, usages, input>>

\* One pass of the loop of rewrite_operators; a break returns the buffer.
OpLoop ==
    /\ pc = "op_loop"
    /\ LET p == loop_pass(result, syntax, iterations)
       IN  /\ result' = p.buf
           /\ pc' = IF p.brk THEN "done" ELSE "op_loop"
    /\ iterations' = iterations + 1
    /\ UNCHANGED <<fn, source, syntax, decls, usages, input>>

\* preprocess called again on the text it returned.
Reapply ==
    /\ pc = "done"
    /\ fn = "preprocess"
    /\ input.kind = "pre"
    /\ source' = result
    /\ iterations' = 0
    /\ decls' = <<>>
    /\ usages' = <<>>
    /\ pc' = "pp_hkt"
    /\ input' = [kind |-> "again", text |-> input.text, mixed |-> input.mixed]
    /\ UNCHANGED <<fn, syntax, result>>

(***************************************************************************)
(* Inputs: flat operator chains x1 op x2 op ... xn                         *)
(***************************************************************************)
MaxOperands == 4

\* The operand at position k: an identifier or a number, no brackets.
AtomPool(k) ==
    CASE k = 1 -> { <<"a">>, <<"U+4E2D", "1">> }
      [] k = 2 -> { <<"f">>, <<"_", "g">> }
      [] k = 3 -> { <<"g">>, <<"2">> }
      [] k = 4 -> { <<"h">>, <<"$", "k">> }
      [] OTHER -> { <<"k">>, <<"U+00E9">> }

Spacings == { <<>>, <<" ">> }

Wrappers ==
    { [pre |-> <<>>, post |-> <<>>],
      [pre |-> <<"c", "o", "n", "s", "t", " ", "x", " ", "=", " ">>, post |-> <<";">>],
      [pre |-> <<"f", "(", "y", ",", " ">>, post |-> <<")">>] }

RECURSIVE chain_text(_, _, _, _)
chain_text(atoms, ops, sp, k) ==
    IF k > Len(ops) THEN atoms[k]
    ELSE atoms[k] \o sp \o text(ops[k]) \o sp \o chain_text(atoms, ops, sp, k + 1)

ChainInputs ==
    { [kind |-> "chain", atoms |-> a, ops |-> o, sp |-> sp, wrap |-> w] :
        a \in UNION { { x \in [1..n -> UNION { AtomPool(k) : k \in 1..n }] :
                          \A k \in 1..n : x[k] \in AtomPool(k) } : n \in 2..MaxOperands },
        o \in UNION { [1..m -> {Pipeline, Cons}] : m \in 1..(MaxOperands - 1) },
        sp \in Spacings,
        w \in Wrappers }

ChainSource(inp) ==
    inp.wrap.pre \o chain_text(inp.atoms, inp.ops, inp.sp, 1) \o inp.wrap.post

InitChain ==
    \E inp \in ChainInputs :
        /\ Len(inp.ops) = Len(inp.atoms) - 1
        /\ CallRewriteOperators(ChainSource(inp), SyntaxAll, inp)

NextChain == OpLoop

SpecChain == InitChain /\ [][NextChain]_vars

(***************************************************************************)
(* Claims about operator chains (specification SpecChain)                  *)
(***************************************************************************)
\* The call text the claims expect for one rewritten operator.
Call(l, optext, r) ==
    <<"_", "_", "b", "i", "n", "o", "p", "_", "_", "(">> \o l
      \o <<",", " ", "\"">> \o optext \o <<"\"", ",", " ">> \o r \o <<")">>

AllOps(inp, op) == \A k \in 1..Len(inp.ops) : inp.ops[k] = op

\* ((x1 |> x2) |> x3) ... |> xk
RECURSIVE LeftNested(_, _)
LeftNested(atoms, k) ==
    IF k = 1 THEN atoms[1]
    ELSE Call(LeftNested(atoms, k - 1), <<"|", ">">>, atoms[k])

\* xk :: (xk+1 :: ... (xn-1 :: xn))
RECURSIVE RightNested(_, _)
RightNested(atoms, k) ==
    IF k = Len(atoms) THEN atoms[k]
    ELSE Call(atoms[k], <<":", ":">>, RightNested(atoms, k + 1))

\* C1: a chain x1 |> x2 |> ... |> xn of bracket-free atoms is returned as the
\* left-nested call text, the leftmost pipeline being the innermost call.
C1_PipelineChainLeftNested ==
    (pc = "done" /\ input.kind = "chain" /\ AllOps(input, Pipeline))
        => result = input.wrap.pre \o LeftNested(input.atoms, Len(input.atoms))
                      \o input.wrap.post

C1_Witness ==
    /\ pc = "done"
    /\ input.kind = "chain"
    /\ AllOps(input, Pipeline)
    /\ Len(input.atoms) >= 3
    /\ iterations = Len(input.atoms)
    /\ result # source

\* C2: a chain x1 :: x2 :: ... :: xn of bracket-free atoms is returned as the
\* right-nested call text, the rightmost cons being the innermost call.
C2_ConsChainRightNested ==
    (pc = "done" /\ input.kind = "chain" /\ AllOps(input, Cons))
        => result = input.wrap.pre \o RightNested(input.atoms, 1) \o input.wrap.post

C2_Witness ==
    /\ pc = "done"
    /\ input.kind = "chain"
    /\ AllOps(input, Cons)
    /\ Len(input.atoms) >= 3
    /\ iterations = Len(input.atoms)
    /\ result # source

\* The reference parse: cons (precedence 5, right-associative) binds tighter
\* than pipeline (precedence 1, left-associative).  RefCons is the cons group
\* that starts at atom k, RefConsEnd its last atom, RefPipe folds the groups
\* to the left.
RECURSIVE RefCons(_, _, _)
RefCons(atoms, ops, k) ==
    IF k <= Len(ops) /\ ops[k] = "Cons"
    THEN Call(atoms[k], <<":", ":">>, RefCons(atoms, ops, k + 1))
    ELSE atoms[k]

RECURSIVE RefConsEnd(_, _)
RefConsEnd(ops, k) ==
    IF k <= Len(ops) /\ ops[k] = "Cons" THEN RefConsEnd(ops, k + 1) ELSE k

RECURSIVE RefPipe(_, _, _, _)
RefPipe(atoms, ops, acc, k) ==
    IF k > Len(ops) THEN acc
    ELSE RefPipe(atoms, ops, Call(acc, <<"|", ">">>, RefCons(atoms, ops, k + 1)),
                 RefConsEnd(ops, k + 1))

RefParse(atoms, ops) == RefPipe(atoms, ops, RefCons(atoms, ops, 1), RefConsEnd(ops, 1))

\* C3: a flat expression of atoms mixing :: and |> nests as the reference
\* operator-precedence parse, whichever operator comes first in the text.
C3_MixedChainAsReferenceParse ==
    (pc = "done" /\ input.kind = "chain")
        => result = input.wrap.pre \o RefParse(input.atoms, input.ops)
                      \o input.wrap.post

C3_Witness ==
    /\ pc = "done"
    /\ input.kind = "chain"
    /\ Len(input.ops) >= 3
    /\ input.ops[1] = Pipeline
    /\ input.ops[2] = Cons
    /\ input.ops[3] = Pipeline
    /\ result # source

(***************************************************************************)
(* Inputs: a string, comment or regex literal next to real operators       *)
(***************************************************************************)
\* needle occurs in hay as a contiguous run of characters.
Contains(hay, needle) ==
    \E k \in 0..(Len(hay) - Len(needle)) : SubSeq(hay, k + 1, k + Len(needle)) = needle

StringLiterals ==
    { <<"\"", "a", " ", "|", ">", " ", "b", "\"">>, <<"'", "a", " ", ":", ":", " ", "b",
        "'">>, <<"\"", "a", ",", " ", "b", "\"">>, <<"\"", "(", "x", "\"">> }

RegexLiterals ==
    { <<"/", "f", "o", "o", "|", "b", "a", "r", "/", "g">>, <<"/", "a", "|", ">", "b",
        "/">>, <<"/", "a", ",", "b", "|", "c", "/">>, <<"/", "[", "|", ">", "]", "/">> }

CommentLiterals ==
    { <<"/", "*", " ", "a", " ", "|", ">", " ", "b", " ", "*", "/">>, <<"/", "*", " ",
        "a", ",", " ", "b", " ", ":", ":", " ", "c", " ", "*", "/">>, <<"/", "/", " ",
        "a", " ", "|", ">", " ", "b", "\n">> }

\* Live code around a string or regex literal in value position; every
\* `pre` leaves a `/` in regex position.
ValueContexts ==
    { [pre |-> <<"c", "o", "n", "s", "t", " ", "s", " ", "=", " ">>, post |-> <<";">>],
      [pre |-> <<"c", "o", "n", "s", "t", " ", "s", " ", "=", " ">>, post |-> <<";", " ",
          "a", " ", "|", ">", " ", "f">>],
      [pre |-> <<>>, post |-> <<" ", "|", ">", " ", "f">>],
      [pre |-> <<"x", " ", "=", " ">>, post |-> <<" ", ":", ":", " ", "x", "s", ";">>],
      [pre |-> <<"x", " ", "=", " ", "a", " ", "|", ">", " ", "g", "(">>,
          post |-> <<")">>],
      [pre |-> <<"a", " ", ":", ":", " ", "f", "(">>, post |-> <<")", " ", "|", ">", " ",
          "h">>],
      [pre |-> <<"x", " ", "=", " ", "a", " ", "|", ">", " ", "f", "(">>, post |-> <<",",
          " ", "b", " ", ":", ":", " ", "c", ")">>],
      [pre |-> <<"a", " ", "|", ">", " ", "f", ";", " ", "y", " ", "=", " ">>,
          post |-> <<" ", ":", ":", " ", "z">>] }

\* Live code around a comment.
CommentContexts ==
    { [pre |-> <<"c", "o", "n", "s", "t", " ", "s", " ", "=", " ", "1", ";", " ">>,
        post |-> <<>>],
      [pre |-> <<"x", " ", "=", " ", "a", " ", "|", ">", " ", "f", ";", " ">>,
          post |-> <<>>],
      [pre |-> <<"x", " ", "=", " ", "a", " ">>, post |-> <<"|", ">", " ", "f", ";">>],
      [pre |-> <<"x", " ", "=", " ", "a", " ", ":", ":", " ">>, post |-> <<"b", ";">>],
      [pre |-> <<>>, post |-> <<"x", " ", "=", " ", "a", " ", "|", ">", " ", "f", " ",
          "|", ">", " ", "g", ";">>] }

LiteralInputs ==
    { [kind |-> "literal", pre |-> c.pre, lit |-> l, post |-> c.post] :
        c \in ValueContexts, l \in StringLiterals \cup RegexLiterals }
    \cup
    { [kind |-> "literal", pre |-> c.pre, lit |-> l, post |-> c.post] :
        c \in CommentContexts, l \in CommentLiterals }

\* A regex with `|` alternation inside the left operand of a real pipeline:
\* in a call (lhs = text.match(<regex>)) or as a receiver (<regex>.test(s)).
RegexBodies ==
    { <<"a", "|", "b">>, <<"f", "o", "o", "|", "b", "a", "r">>, <<"a", "|", "b", "|",
        "c">>, <<"[", "a", "|", "b", "]">>, <<"a", "\\", "/", "b", "|", "c">>, <<"a",
        "|", ">", "b">> }

RegexOperandForms ==
    { [open |-> <<"t", "e", "x", "t", ".", "m", "a", "t", "c", "h", "(">>,
        close |-> <<")">>],
      [open |-> <<>>, close |-> <<".", "t", "e", "s", "t", "(", "s", ")">>] }

RegexOperandInputs ==
    { [kind |-> "regex_operand", pre |-> w.pre, post |-> w.post,
       lit |-> <<"/">> \o b \o <<"/">> \o fl,
       lhs |-> f.open \o <<"/">> \o b \o <<"/">> \o fl \o f.close,
       rhs |-> r] :
        w \in { [pre |-> <<>>, post |-> <<>>], [pre |-> <<"c", "o", "n", "s", "t", " ",
            "x", " ", "=", " ">>, post |-> <<";">>] },
        b \in RegexBodies,
        fl \in { <<>>, <<"g">> },
        f \in RegexOperandForms,
        r \in { <<"f">>, <<"B", "o", "o", "l", "e", "a", "n">> } }

InitCtx ==
    \/ \E inp \in LiteralInputs :
           CallRewriteOperators(inp.pre \o inp.lit \o inp.post, SyntaxAll, inp)
    \/ \E inp \in RegexOperandInputs :
           CallRewriteOperators(inp.pre \o inp.lhs \o <<" ", "|", ">",
               " ">> \o inp.rhs \o inp.post,
                                SyntaxAll, inp)

NextCtx == OpLoop

SpecCtx == InitCtx /\ [][NextCtx]_vars

\* C4: every string literal, comment and regex literal of the input appears
\* byte for byte in the output, also when real operators around it are
\* rewritten.
C4_LiteralsUnchanged ==
    (pc = "done" /\ input.kind = "literal") => Contains(result, input.lit)

\* C5: a regex with `|` alternation in the left operand of a real |> is not
\* taken for a pipeline: only the real operator is rewritten and the regex is
\* intact inside the first argument of the call.
C5_RegexOperandIntact ==
    (pc = "done" /\ input.kind = "regex_operand")
        => result = input.pre \o Call(input.lhs, <<"|", ">">>, input.rhs) \o input.post

(***************************************************************************)
(* Inputs: template literals with nested interpolations                    *)
(***************************************************************************)
MaxTemplateDepth == 3

\* Literal text before and after an interpolation; it holds operator-like
\* text, an escaped backtick and braces.
TemplateTexts ==
    { [before |-> <<"p", "l", "a", "i", "n", " ", "|", ">", " ", "t", "e", "x", "t",
        " ">>, after |-> <<>>],
      [before |-> <<"I", "t", "e", "m", "s", ":", " ">>, after |-> <<" ", ":", ":", " ",
          "r", "e", "s", "t", " ", "|", ">", " ", "g">>],
      [before |-> <<"a", " ", ":", ":", " ", "b", " ", "\\", BT, " ", "|", ">", " ", "c",
          " ">>, after |-> <<" ", "{", "x", " ", "|", ">", " ", "y", "}", " ">>] }

\* The expression of the innermost interpolation: a flat chain.
TemplateExprs ==
    { [atoms |-> << <<"x">>, <<"f">> >>, ops |-> <<Pipeline>>, sp |-> <<" ">>],
      [atoms |-> << <<"d", "a", "t", "a">>, <<"f">> >>, ops |-> <<Pipeline>>,
          sp |-> <<>>],
      [atoms |-> << <<"1">>, <<"2">>, <<"x", "s">> >>, ops |-> <<Cons, Cons>>,
          sp |-> <<" ">>],
      [atoms |-> << <<"a">>, <<"b">>, <<"f">> >>, ops |-> <<Cons, Pipeline>>,
          sp |-> <<" ">>],
      [atoms |-> << <<"a">>, <<"b">>, <<"c">>, <<"d">> >>, ops |-> <<Pipeline, Cons,
          Pipeline>>,
       sp |-> <<" ">>] }

TemplateWrappers ==
    { [pre |-> <<>>, post |-> <<>>],
      [pre |-> <<"c", "o", "n", "s", "t", " ", "m", "s", "g", " ", "=", " ">>,
          post |-> <<";">>] }

\* d levels of  ` before ${  ...  } after `  around the text inner.
RECURSIVE TemplateNest(_, _, _)
TemplateNest(d, t, inner) ==
    IF d = 0 THEN inner
    ELSE <<BT>> \o t.before \o <<"$", "{">> \o TemplateNest(d - 1, t, inner)
           \o <<"}">> \o t.after \o <<BT>>

\* A template literal without interpolation around the text of a chain.
PlainTemplate(t, inner) == <<BT>> \o t.before \o inner \o t.after \o <<BT>>

TemplateInputs ==
    { [kind |-> "template", depth |-> d, texts |-> t, expr |-> e, wrap |-> w] :
        d \in 0..MaxTemplateDepth, t \in TemplateTexts, e \in TemplateExprs,
        w \in TemplateWrappers }

\* Two interpolations in one template literal.
Template2Inputs ==
    { [kind |-> "template2", texts |-> t, expr |-> e1, expr2 |-> e2, wrap |-> w] :
        t \in TemplateTexts, e1 \in TemplateExprs, e2 \in TemplateExprs,
        w \in TemplateWrappers }

\* An interpolation whose expression holds a string or a nested template
\* literal with a brace in it.
BraceOperandExprs ==
    { <<"a", " ", "|", ">", " ", BT, "{", BT>>, <<"a", " ", "|", ">", " ", "\"", "{",
        "\"">>, <<"f", "(", "\"", "}", "\"", ")", " ", "|", ">", " ", "g">>, <<BT, "}",
        BT, " ", ":", ":", " ", "x", "s">>, <<"a", " ", "|", ">", " ", BT, "x", BT, " ",
        "|", ">", " ", "g">> }

TemplateOperandInputs ==
    { [kind |-> "template_operand", depth |-> d, texts |-> t, code |-> c, wrap |-> w] :
        d \in 1..MaxTemplateDepth, t \in TemplateTexts, c \in BraceOperandExprs,
        w \in TemplateWrappers }

ExprText(e) == chain_text(e.atoms, e.ops, e.sp, 1)

TemplateSource(inp, inner) ==
    inp.wrap.pre
      \o (IF inp.depth = 0 THEN PlainTemplate(inp.texts, inner)
          ELSE TemplateNest(inp.depth, inp.texts, inner))
      \o inp.wrap.post

Template2Source(inp, inner1, inner2) ==
    inp.wrap.pre \o <<BT>> \o inp.texts.before \o <<"$", "{">> \o inner1 \o <<"}">>
      \o inp.texts.after \o <<"$", "{">> \o inner2 \o <<"}">> \o inp.texts.before
      \o <<BT>> \o inp.wrap.post

InitTpl ==
    \/ \E inp \in TemplateInputs :
           CallRewriteOperators(TemplateSource(inp, ExprText(inp.expr)), SyntaxAll, inp)
    \/ \E inp \in Template2Inputs :
           CallRewriteOperators(Template2Source(inp, ExprText(inp.expr),
                                                ExprText(inp.expr2)), SyntaxAll, inp)
    \/ \E inp \in TemplateOperandInputs :
           CallRewriteOperators(TemplateSource(inp, inp.code), SyntaxAll, inp)

NextTpl == OpLoop

SpecTpl == InitTpl /\ [][NextTpl]_vars

\* C6: an operator inside an interpolation is found and rewritten at any
\* nesting depth of template literals, operator-like text in literal text is
\* never rewritten, and a template literal without interpolation is returned
\* unchanged.
C6_TemplateInterpolationRewritten ==
    /\ (pc = "done" /\ input.kind = "template")
          => result = IF input.depth = 0 THEN source
                      ELSE TemplateSource(input, RefParse(input.expr.atoms, input.expr.ops))
    /\ (pc = "done" /\ input.kind = "template2")
          => result = Template2Source(input, RefParse(input.expr.atoms, input.expr.ops),
                                      RefParse(input.expr2.atoms, input.expr2.ops))

C6_Witness ==
    /\ pc = "done"
    /\ input.kind = "template"
    /\ input.depth = MaxTemplateDepth
    /\ Len(input.expr.ops) = 3
    /\ Contains(input.texts.after, <<"|", ">">>)
    /\ result # source

\* The text around the expression of the innermost interpolation.
TemplateHead(inp) ==
    LET whole == TemplateSource(inp, <<>>)
        tailLen == inp.depth * (2 + Len(inp.texts.after)) + Len(inp.wrap.post)
    IN  SubSeq(whole, 1, Len(whole) - tailLen)

TemplateTail(inp) ==
    LET whole == TemplateSource(inp, <<>>)
        tailLen == inp.depth * (2 + Len(inp.texts.after)) + Len(inp.wrap.post)
    IN  SubSeq(whole, Len(whole) - tailLen + 1, Len(whole))

\* C7: the span replaced for an operator inside an interpolation lies inside
\* that interpolation: the text up to and including its `${` and the text
\* from its closing `}` on are unchanged.
C7_RewriteStaysInsideInterpolation ==
    (pc = "done" /\ input.kind = "template_operand")
        => /\ Len(result) >= Len(TemplateHead(input)) + Len(TemplateTail(input))
           /\ SubSeq(result, 1, Len(TemplateHead(input))) = TemplateHead(input)
           /\ SubSeq(result, Len(result) - Len(TemplateTail(input)) + 1, Len(result))
                = TemplateTail(input)

(***************************************************************************)
(* Inputs: a statement declaring a higher-kinded parameter, usages in it,  *)
(* before it and after it (specification SpecHkt)                          *)
(***************************************************************************)
HktNames == { <<"F">>, <<"B", "o", "x">> }

Placeholders == { <<"<", "_", ">">>, <<"<", "_", ",", " ", "_", ">">>, <<"<", " ", "_",
    " ", ">">> }

UsageText(n, args) == n \o <<"<">> \o args \o <<">">>

\* The text the claims expect for a rewritten usage.
Rewritten(n, args) == <<"$", "<">> \o n \o <<",", " ">> \o args \o <<">">>

\* Complete statements before the declaring statement; the last one holds a
\* usage of the name.
HktPrefixes(n) ==
    { [text |-> <<>>, usage_at |-> None],
      [text |-> <<"/", "*", " ", "U+00E9", " ", "*", "/", " ", "c", "o", "n", "s", "t",
          " ", "s", " ", "=", " ", "\"", "F", "<", "_", ">", "\"", ";">> \o <<"\n">>,
          usage_at |-> None],
      [text |-> <<"l", "e", "t", " ", "y", ":", " ">> \o UsageText(n, <<"n", "u", "m",
          "b", "e", "r">>) \o <<";">> \o <<"\n">>,
       usage_at |-> 7] }

\* The declaring statement around the declared name and around the body;
\* want is the text expected for open.
HktForms ==
    { [open |-> <<"i", "n", "t", "e", "r", "f", "a", "c", "e", " ", "F", "u", "n", "c",
        "t", "o", "r", "<">>, want |-> <<"i", "n", "t", "e", "r", "f", "a", "c", "e",
        " ", "F", "u", "n", "c", "t", "o", "r", "<">>,
       mid |-> <<">", " ", "{", " ", "m", "a", "p", ":", " ">>, close |-> <<";", " ",
           "}">>],
      [open |-> <<"t", "y", "p", "e", " ", "A", "p", "<">>, want |-> <<"t", "y", "p",
          "e", " ", "A", "p", "<">>,
       mid |-> <<">", " ", "=", " ">>, close |-> <<";">>],
      [open |-> <<"i", "n", "t", "e", "r", "f", "a", "c", "e", " ", "N", "a", "t", "<",
          "G", "<", "_", ">", ",", " ">>, want |-> <<"i", "n", "t", "e", "r", "f", "a",
          "c", "e", " ", "N", "a", "t", "<", "G", ",", " ">>,
       mid |-> <<">", " ", "{", " ", "r", "u", "n", ":", " ">>, close |-> <<" ",
           "}">>] }

\* A type in the body of the declaring statement and the text expected for
\* it.
HktBodies(n) ==
    { [shape |-> "flat", text |-> UsageText(n, <<"A">>), want |-> Rewritten(n,
        <<"A">>)],
      [shape |-> "two_args", text |-> UsageText(n, <<"A", ",", " ", "B">>),
       want |-> Rewritten(n, <<"A", ",", " ", "B">>)],
      [shape |-> "wide", text |-> UsageText(n, <<"U+00E9">>), want |-> Rewritten(n,
          <<"U+00E9">>)],
      [shape |-> "function",
       text |-> <<"(", "f", "a", ":", " ">> \o UsageText(n, <<"A">>) \o <<")", " ", "=",
           ">", " ">> \o UsageText(n, <<"B">>),
       want |-> <<"(", "f", "a", ":", " ">> \o Rewritten(n, <<"A">>) \o <<")", " ", "=",
           ">", " ">> \o Rewritten(n, <<"B">>)],
      [shape |-> "padded", text |-> UsageText(n, <<" ", "A", " ">>),
       want |-> Rewritten(n, <<" ", "A", " ">>)],
      [shape |-> "inside_generic",
       text |-> <<"A", "r", "r", "a", "y", "<">> \o UsageText(n, <<"A">>) \o <<">">>,
       want |-> <<"A", "r", "r", "a", "y", "<">> \o Rewritten(n, <<"A">>) \o <<">">>],
      [shape |-> "nested", text |-> UsageText(n, UsageText(n, <<"A">>)),
       want |-> Rewritten(n, Rewritten(n, <<"A">>))],
      [shape |-> "string", text |-> <<"\"">> \o UsageText(n, <<"A">>) \o <<"\"">>,
       want |-> <<"\"">> \o UsageText(n, <<"A">>) \o <<"\"">>],
      [shape |-> "other_name", text |-> <<"H", "<", "A", ">">>, want |-> <<"H", "<", "A",
          ">">>] }

\* What separates the declaring statement from the next one.
HktGaps == { <<>>, <<" ">>, <<"\n">> }

\* The statement after the declaring one: a call with a type argument.
HktTail(n) == UsageText(n, <<"n", "u", "m", "b", "e", "r">>) \o <<"(", "x", ")", ";">>

HktInputs ==
    UNION { { [kind |-> "hkt", name |-> n, placeholder |-> p, prefix |-> pre,
               form |-> f, body |-> b, gap |-> g] :
                p \in Placeholders, pre \in HktPrefixes(n), f \in HktForms,
                b \in HktBodies(n), g \in HktGaps } : n \in HktNames }

HktSource(inp) ==
    inp.prefix.text \o inp.form.open \o inp.name \o inp.placeholder \o inp.form.mid
        \o inp.body.text \o inp.form.close \o inp.gap \o HktTail(inp.name)

InitHkt == \E inp \in HktInputs : CallRewriteHkt(HktSource(inp), inp)

NextHkt == HktDeclarations \/ HktUsages \/ HktApply

SpecHkt == InitHkt /\ [][NextHkt]_vars

\* The output expected up to the end of the declaring statement.
HktHeadWant(inp) ==
    inp.prefix.text \o inp.form.want \o inp.name \o inp.form.mid \o inp.body.want
        \o inp.form.close

\* C8: the placeholder bracket of every declaration is deleted, and every
\* usage of the declared name in the declaring statement is replaced by
\* $<Name, Args> with the arguments copied unchanged.
C8_DeclarationsStrippedUsagesRewritten ==
    (pc = "done" /\ input.kind = "hkt")
        => /\ Len(result) >= Len(HktHeadWant(input))
           /\ SubSeq(result, 1, Len(HktHeadWant(input))) = HktHeadWant(input)

\* pos lies outside the half-open span [scope_start, scope_end) of every
\* declaration of the name n.
OutsideEveryScope(n, pos) ==
    \A k \in 1..Len(decls) :
        decls[k].name = n => ~(decls[k].scope_start <= pos /\ pos < decls[k].scope_end)

HktTailStart(inp) == str_len(source) - str_len(HktTail(inp.name))

\* C9: a usage that starts outside the half-open scope span of every
\* declaration of its name is left unchanged: the one in the statement before
\* the declaring statement, and the one that starts at or after the byte
\* following the end of the declaring statement.
C9_UsageOutsideScopeUnchanged ==
    (pc = "done" /\ input.kind = "hkt")
        => /\ (input.prefix.usage_at # None
                 /\ OutsideEveryScope(input.name, input.prefix.usage_at))
               => SubSeq(result, 1, Len(input.prefix.text)) = input.prefix.text
           /\ OutsideEveryScope(input.name, HktTailStart(input))
               => /\ Len(result) >= Len(HktTail(input.name))
                  /\ SubSeq(result, Len(result) - Len(HktTail(input.name)) + 1,
                            Len(result)) = HktTail(input.name)

(***************************************************************************)
(* Inputs: sources with higher-kinded declarations and operators under     *)
(* every configuration (specification SpecPre)                             *)
(***************************************************************************)
Configurations == [pipeline : BOOLEAN, cons : BOOLEAN, hkt : BOOLEAN]

PreHktParts ==
    { <<>>,
      <<"i", "n", "t", "e", "r", "f", "a", "c", "e", " ", "F", "u", "n", "c", "t", "o",
          "r", "<", "F", "<", "_", ">", ">", " ", "{", " ", "m", "a", "p", ":", " ", "(",
          "f", "a", ":", " ", "F", "<", "A", ">", ")", " ", "=", ">", " ", "F", "<", "B",
          ">", ";", " ", "}">> \o <<"\n">>,
      <<"t", "y", "p", "e", " ", "A", "p", "<", "F", "<", "_", ",", " ", "_", ">", ">",
          " ", "=", " ", "F", "<", "A", ",", " ", "B", ">", ";">> \o <<"\n">> }

PreOperatorParts ==
    { <<"c", "o", "n", "s", "t", " ", "n", " ", "=", " ", "1", ";">>,
      <<"c", "o", "n", "s", "t", " ", "y", " ", "=", " ", "x", " ", "|", ">", " ", "f",
          " ", ":", ":", " ", "g", ";">>,
      <<"c", "o", "n", "s", "t", " ", "r", " ", "=", " ", "a", " ", "|", ">", " ", "f",
          " ", "|", ">", " ", "g", ";">>,
      <<"x", "s", " ", "=", " ", "1", " ", ":", ":", " ", "2", " ", ":", ":", " ", "[",
          "]", ";">> }

\* Sources in which an operator operand holds a usage of a declared name:
\* the two passes do not commute on them.
PreMixedSources ==
    { <<"f", "u", "n", "c", "t", "i", "o", "n", " ", "g", "<", "F", "<", "_", ">", ">",
        "(", ")", " ", "{", " ", "r", "e", "t", "u", "r", "n", " ", "m", "k", "<", "F",
        "<", "A", ">", ">", "(", ")", " ", "|", ">", " ", "f", ";", " ", "}">>,
      <<"f", "u", "n", "c", "t", "i", "o", "n", " ", "g", "<", "F", "<", "_", ">", ">",
          "(", ")", " ", "{", " ", "r", "e", "t", "u", "r", "n", " ", "a", " ", ":", ":",
          " ", "F", "<", "A", ">", ";", " ", "}">> }

PreInputs ==
    { [kind |-> "pre", text |-> h \o o, mixed |-> FALSE] :
        h \in PreHktParts, o \in PreOperatorParts }
    \cup { [kind |-> "pre", text |-> m, mixed |-> TRUE] : m \in PreMixedSources }

InitPre ==
    \E inp \in PreInputs, syn \in Configurations : CallPreprocess(inp.text, syn, inp)

NextPre ==
    \/ PreprocessHkt
    \/ HktDeclarations
    \/ HktUsages
    \/ HktApply
    \/ PreprocessOperators
    \/ OpLoop

SpecPre == InitPre /\ [][NextPre]_vars

\* rewrite_hkt applied iff hkt, then rewrite_operators applied to that
\* result iff pipeline or cons.
Composition(src, syn) ==
    LET h == IF syn.hkt THEN rewrite_hkt(src).buf ELSE src
    IN  IF syn.pipeline \/ syn.cons THEN rewrite_operators(h, syn) ELSE h

\* C10: preprocess returns rewrite_operators (iff pipeline or cons) of
\* rewrite_hkt (iff hkt) of the source, the HKT pass first; with the three
\* flags false it returns the source.
C10_PreprocessIsComposition ==
    (pc = "done" /\ fn = "preprocess")
        => /\ result = Composition(source, syntax)
           /\ (~syntax.hkt /\ ~syntax.pipeline /\ ~syntax.cons) => result = source

\* Both passes have run on a source on which their order shows.
C10_Witness ==
    /\ pc = "done"
    /\ fn = "preprocess"
    /\ syntax = SyntaxAll
    /\ input.mixed
    /\ decls # <<>>
    /\ usages # <<>>
    /\ iterations > 1
    /\ result # rewrite_hkt(rewrite_operators(source, syntax)).buf

(***************************************************************************)
(* Claims about the configuration (specification SpecPre)                  *)
(***************************************************************************)
\* The number of positions of hay at which needle starts.
Count(hay, needle) ==
    Cardinality({ k \in 0..(Len(hay) - Len(needle)) :
                    SubSeq(hay, k + 1, k + Len(needle)) = needle })

\* C11: the default configuration enables the three features, and each is
\* switched off on its own: with pipeline false no |> is rewritten, with cons
\* false no :: is rewritten, with hkt false no placeholder bracket is removed
\* and no $< is introduced, whatever the other two flags are.
C11_FeaturesToggleIndependently ==
    /\ SyntaxAll.pipeline /\ SyntaxAll.cons /\ SyntaxAll.hkt
    /\ (fn = "preprocess")
        => /\ ~syntax.pipeline
               => /\ Count(result, <<"|", ">">>) = Count(source, <<"|", ">">>)
                  /\ ~Contains(result, <<"\"", "|", ">", "\"">>)
           /\ ~syntax.cons
               => /\ Count(result, <<":", ":">>) = Count(source, <<":", ":">>)
                  /\ ~Contains(result, <<"\"", ":", ":", "\"">>)
           /\ ~syntax.hkt
               => /\ Count(result, <<"<", "_">>) = Count(source, <<"<", "_">>)
                  /\ ~Contains(result, <<"$", "<">>)

\* A source with the three kinds of sugar preprocessed with cons alone.
C11_Witness ==
    /\ pc = "done"
    /\ fn = "preprocess"
    /\ syntax = [pipeline |-> FALSE, cons |-> TRUE, hkt |-> FALSE]
    /\ Contains(source, <<"|", ">">>)
    /\ Contains(source, <<":", ":">>)
    /\ Contains(source, <<"<", "_">>)
    /\ Contains(result, <<"\"", ":", ":", "\"">>)

(***************************************************************************)
(* Selection of the next occurrence (specification SpecChain)              *)
(***************************************************************************)
\* The occurrences of operator o in the list occs.
OccurrencesOf(occs, o) == { occs[k] : k \in { m \in 1..Len(occs) : occs[m].op = o } }

\* C17: in every iteration with a non-empty occurrence list one occurrence of
\* the list is selected; a pipeline only when the list holds no cons; among
\* cons occurrences the one with the greatest start offset, among pipeline
\* occurrences the one with the least start offset.
C17_SelectionByPrecedenceAndAssociativity ==
    LET occs == find_operator_occurrences(result, syntax)
        next == select_next_operator(occs)
        conses == OccurrencesOf(occs, Cons)
        pipes == OccurrencesOf(occs, Pipeline)
    IN  (pc = "op_loop" /\ occs # <<>>)
        => /\ Cardinality({ k \in 1..Len(occs) : occs[k] = next }) = 1
           /\ IF conses # {}
              THEN /\ next \in conses
                   /\ \A o \in conses : o.byte_start <= next.byte_start
              ELSE /\ next \in pipes
                   /\ \A o \in pipes : next.byte_start <= o.byte_start

\* A pass is about to run on `.. :: .. :: .. |> ..`: the selected occurrence
\* is the second of three.
C17_Witness ==
    LET occs == find_operator_occurrences(result, syntax)
    IN  /\ pc = "op_loop"
        /\ Len(occs) = 3
        /\ occs[1].op = Cons /\ occs[2].op = Cons /\ occs[3].op = Pipeline
        /\ select_next_operator(occs) = occs[2]

(***************************************************************************)
(* Comparisons and arrows in the left operand (specification SpecEq)       *)
(***************************************************************************)
EqTargets == { <<"x">>, <<"y", ".", "z">>, <<"c", "o", "n", "s", "t", " ", "x">>, <<"l",
    "e", "t", " ", "r">> }

EqLefts == { <<"a", " ", "=", "=", " ", "b">>, <<"a", " ", "=", "=", "=", " ", "b">>,
    <<"(", "a", ")", " ", "=", ">", " ", "b">>, <<"n", " ", "=", ">", " ", "n">>,
    <<"a">> }

EqRights == { <<"f">>, <<"g", "(", "1", ")">> }

EqInputs ==
    { [kind |-> "eq", target |-> t, lhs |-> l, op |-> o, rhs |-> r] :
        t \in EqTargets, l \in EqLefts, o \in {Pipeline, Cons}, r \in EqRights }

EqSource(inp) ==
    inp.target \o <<" ", "=",
        " ">> \o inp.lhs \o <<" ">> \o text(inp.op) \o <<" ">> \o inp.rhs

InitEq ==
    \E inp \in EqInputs : CallRewriteOperators(EqSource(inp), SyntaxAll, inp)

NextEq == OpLoop

SpecEq == InitEq /\ [][NextEq]_vars

\* C18: the = of ==, === and => never ends the left operand: in
\* `t = l op r` the left operand is the whole of l and the boundary is the
\* assignment.
C18_ComparisonIsWholeLeftOperand ==
    (pc = "done" /\ input.kind = "eq")
        => result = input.target \o <<" ", "=", " ">>
                      \o Call(input.lhs, text(input.op), input.rhs)

(***************************************************************************)
(* Bracket groups as operands (specification SpecGrp)                      *)
(***************************************************************************)
GrpBrackets ==
    { [open |-> <<"(">>, close |-> <<")">>],
      [open |-> <<"[">>, close |-> <<"]">>],
      [open |-> <<"{">>, close |-> <<"}">>] }

\* What surrounds the expression: an unmatched bracket of each kind or a
\* separator on each side.
GrpOuters ==
    { [pre |-> <<"f", "(">>,   post |-> <<")">>],
      [pre |-> <<"v", " ", "=", " ", "[">>, post |-> <<"]">>],
      [pre |-> <<"{", " ">>,   post |-> <<"}">>],
      [pre |-> <<"p", ",", " ">>,  post |-> <<",", " ", "q">>],
      [pre |-> <<"U+00E9">> \o <<";", " ">>,  post |-> <<";", " ", "q">>] }

\* What stands inside a group, and what it becomes once the passes have
\* rewritten the operator inside it.
GrpInners ==
    { [raw |-> <<"a", ",", " ", "b">>,   done |-> <<"a", ",", " ", "b">>],
      [raw |-> <<"a", ";", " ", "b">>,   done |-> <<"a", ";", " ", "b">>],
      [raw |-> <<"x", " ", "|", ">", " ", "y">>, done |-> Call(<<"x">>, <<"|", ">">>,
          <<"y">>)],
      [raw |-> <<"m", " ", ":", ":", " ", "n">>, done |-> Call(<<"m">>, <<":", ":">>,
          <<"n">>)] }

GrpInputs ==
    { [kind |-> "grp", outer |-> o, lb |-> lb, rb |-> rb, inner |-> n, op |-> op] :
        o \in GrpOuters, lb \in GrpBrackets, rb \in GrpBrackets,
        n \in GrpInners, op \in {Pipeline, Cons} }

Group(b, body) == <<"h">> \o b.open \o body \o b.close

GrpLeft(inp) == Group(inp.lb, inp.inner.raw)

GrpRight(inp) == Group(inp.rb, inp.inner.raw)

GrpSource(inp) ==
    inp.outer.pre \o GrpLeft(inp) \o <<" ">> \o text(inp.op) \o <<" ">>
      \o GrpRight(inp) \o inp.outer.post

InitGrp ==
    \E inp \in GrpInputs : CallRewriteOperators(GrpSource(inp), SyntaxAll, inp)

NextGrp == OpLoop

SpecGrp == InitGrp /\ [][NextGrp]_vars

\* C19: round, square and curly brackets are tracked alike.  For the operator
\* between two groups, the left operand starts after the unmatched open
\* bracket or separator before the left group, the right operand ends before
\* the unmatched close bracket or separator after the right group, and both
\* groups, with the commas, semicolons and operators inside them, are whole
\* in the operands.
C19_BracketsTrackedAlike ==
    (input.kind = "grp")
        => LET before == input.outer.pre
               op_start == str_len(before \o GrpLeft(input) \o <<" ">>)
               op_end == op_start + str_len(text(input.op))
               right_end == op_end + str_len(<<" ">> \o GrpRight(input))
           IN  /\ find_left_operand(source, op_start, input.op) = str_len(before)
               /\ find_right_operand(source, op_end, input.op) = right_end
               /\ pc = "done"
                   => result = before
                        \o Call(Group(input.lb, input.inner.done), text(input.op),
                                Group(input.rb, input.inner.done))
                        \o input.outer.post

\* The passes have ended on `{ h[x |> y] :: h{x |> y}}`.
C19_Witness ==
    /\ pc = "done"
    /\ input.kind = "grp"
    /\ input.outer.pre = <<"{", " ">>
    /\ input.lb.open = <<"[">>
    /\ input.rb.open = <<"{">>
    /\ input.inner.raw = <<"x", " ", "|", ">", " ", "y">>
    /\ input.op = Cons
    /\ iterations = 4
    /\ result # source

(***************************************************************************)
(* The substitution of one pass (specification SpecChain)                  *)
(***************************************************************************)
\* C20: a pass that substitutes replaces the bytes from the left boundary up
\* to the right boundary by the call text built from the trimmed operand
\* texts, and keeps the bytes before the left boundary and the bytes from the
\* right boundary on; left boundary <= operator start and operator end <=
\* right boundary <= buffer length.
C20_SubstitutionFrame ==
    [][(pc = "op_loop" /\ pc' = "op_loop")
        => LET next == select_next_operator(find_operator_occurrences(result, syntax))
               left == find_left_operand(result, next.byte_start, next.op)
               right == find_right_operand(result, next.byte_end, next.op)
               call == Call(trim(str_slice(result, left, next.byte_start)),
                            text(next.op),
                            trim(str_slice(result, next.byte_end, right)))
           IN  /\ left <= next.byte_start
               /\ next.byte_end <= right
               /\ right <= str_len(result)
               /\ str_len(result') = left + str_len(call) + (str_len(result) - right)
               /\ str_slice(result', 0, left) = str_slice(result, 0, left)
               /\ str_slice(result', left, left + str_len(call)) = call
               /\ str_slice(result', left + str_len(call), str_len(result'))
                    = str_slice(result, right, str_len(result))]_vars

\* One substitution has been made inside `f(y, ...)` on a chain written with
\* spaces: text before and after the span is there, and operators remain.
C20_Witness ==
    /\ pc = "op_loop"
    /\ iterations = 1
    /\ result # source
    /\ input.wrap.pre = <<"f", "(", "y", ",", " ">>
    /\ input.sp = <<" ">>
    /\ Len(input.ops) = 3
    /\ find_operator_occurrences(result, syntax) # <<>>

(***************************************************************************)
(* The iteration cap (specification SpecCap)                               *)
(*                                                                         *)
(* A chain `x op x op ... x` of n operators needs n substitutions.  The    *)
(* initial states are the states of rewrite_operators on such a chain      *)
(* after k passes, CapStart <= k <= max_iterations: k substitutions have   *)
(* been made and the loop is about to start pass k + 1.                    *)
(***************************************************************************)
CapStart == 999

\* The longest chain has max_iterations + CapOver operators.
CapOver == 3

CapAtoms == { <<"a">>, <<"b">>, <<"U+00E9">>, <<"U+4E2D">> }

\* unit written k times.
Repeat(unit, k) ==
    IF k = 0 THEN <<>>
    ELSE [i \in 1..(k * Len(unit)) |-> unit[((i - 1) % Len(unit)) + 1]] \o <<>>

\* The buffer after k passes on the chain of n operators op between atoms x:
\* the pipeline chain is rewritten from the left, the cons chain from the
\* right.
CapBuffer(x, op, n, k) ==
    IF op = Pipeline
    THEN Repeat(BinopOpen, k) \o x
           \o Repeat(<<",", " ">> \o <<"\"">> \o text(op) \o <<"\"">> \o <<",",
               " ">> \o x \o <<")">>, k)
           \o Repeat(text(op) \o x, n - k)
    ELSE Repeat(x \o text(op), n - k)
           \o Repeat(BinopOpen \o x \o <<",",
               " ">> \o <<"\"">> \o text(op) \o <<"\"">> \o <<",", " ">>, k)
           \o x \o Repeat(<<")">>, k)

CapInputs ==
    { [kind |-> "cap", atom |-> x, op |-> op, n |-> n] :
        x \in CapAtoms, op \in {Pipeline, Cons},
        n \in CapStart..(max_iterations + CapOver) }

InitCap ==
    \E inp \in CapInputs :
        \E k \in CapStart..max_iterations :
            /\ k <= inp.n
            /\ fn = "rewrite_operators"
            /\ source = CapBuffer(inp.atom, inp.op, inp.n, 0)
            /\ syntax = SyntaxAll
            /\ result = CapBuffer(inp.atom, inp.op, inp.n, k)
            /\ iterations = k
            /\ decls = <<>>
            /\ usages = <<>>
            /\ pc = "op_loop"
            /\ input = inp

NextCap == OpLoop

SpecCap == InitCap /\ [][NextCap]_vars

\* Each pass of the loop leads from the buffer after k passes to the buffer
\* after k + 1 passes.
CapPassesAgree ==
    [][(pc' = "op_loop")
        => result' = CapBuffer(input.atom, input.op, input.n, iterations')]_vars

\* C15: when the chain needs more substitutions than max_iterations, the loop
\* stops at the cap: the pass after max_iterations passes breaks without
\* touching the buffer, and rewrite_operators returns, as any other call
\* does, the buffer of max_iterations substitutions in which occurrences
\* remain.
C15_CapStopsLoopSilently ==
    /\ (pc = "op_loop" /\ iterations = max_iterations)
        => loop_pass(result, syntax, iterations) = [buf |-> result, brk |-> TRUE]
    /\ pc \in {"op_loop", "done"}
    /\ iterations <= max_iterations + 1
    /\ (pc = "done" /\ input.n > max_iterations)
        => /\ iterations = max_iterations + 1
           /\ result = CapBuffer(input.atom, input.op, input.n, max_iterations)
           /\ find_operator_occurrences(result, syntax) # <<>>
    /\ (pc = "done" /\ input.n < max_iterations)
        => /\ iterations = input.n + 1
           /\ result = CapBuffer(input.atom, input.op, input.n, input.n)

\* The loop has stopped at the cap on a chain of max_iterations + 2
\* operators: two occurrences are left in the returned buffer.
C15_Witness ==
    /\ pc = "done"
    /\ input.kind = "cap"
    /\ input.n = max_iterations + 2
    /\ iterations = max_iterations + 1
    /\ Len(find_operator_occurrences(result, syntax)) = 2

(***************************************************************************)
(* Type-context tracking of the occurrence search (specification SpecType) *)
(***************************************************************************)
\* The statement before the separator.
TypeFirsts ==
    { <<"x", " ", "=", " ", "1">>, <<"l", "e", "t", " ", "v", ":", " ", "T", " ", "=",
        " ", "y">>, <<"t", "y", "p", "e", " ", "T", " ", "=", " ", "A">>, <<"i", "n",
        "t", "e", "r", "f", "a", "c", "e", " ", "I", " ", "{", " ", "m", ":", " ", "A",
        " ", "}">>,
      <<"f", "(", "a", ",", " ", "b", ":", " ", "c", ")">>, <<"i", "<", "n">>, <<"m",
          " ", "=", " ", "n", "e", "w", " ", "M", "a", "p", "<", "K", ",", " ", "V", ">",
          "(", ")">>, <<"p", " ", "=", " ", "q", " ", "?", " ", "r", " ", ":", " ",
          "s">> }

\* The statement after it, with an operator.
TypeSeconds ==
    { <<"x", " ", "|", ">", " ", "f">>, <<"y", " ", ":", ":", " ", "y", "s">>, <<"g",
        "(", "u", ",", " ", "v", ":", " ", "w", " ", "|", ">", " ", "h", ")">>, <<"k",
        " ", "=", " ", "c", " ", "?", " ", "a", " ", ":", " ", "b", " ", "|", ">", " ",
        "f">>,
      <<"c", "o", "n", "s", "t", " ", "n", ":", " ", "N", " ", "=", " ", "a", " ", ":",
          ":", " ", "b">> }

TypeSeparators == { <<";", " ">>, <<"\n">> }

TypeInputs ==
    { [kind |-> "type", first |-> a, sep |-> s, second |-> b] :
        a \in TypeFirsts, s \in TypeSeparators, b \in TypeSeconds }

TypeSource(inp) == inp.first \o inp.sep \o inp.second

InitType ==
    \E inp \in TypeInputs : CallRewriteOperators(TypeSource(inp), SyntaxAll, inp)

NextType == OpLoop

SpecType == InitType /\ [][NextType]_vars

\* The loop states of the occurrence search on the current buffer.
ScanStates == scan_trace(result, syntax, ScanInit)

\* C27: at every scan position of the occurrence search the type-annotation
\* depth and the angle-bracket depth are >= 0.
C27_DepthsNeverNegative ==
    (pc = "op_loop")
        => \A k \in 1..Len(ScanStates) :
              /\ ScanStates[k].type_annotation_depth >= 0
              /\ ScanStates[k].angle_bracket_depth >= 0

\* C21: an occurrence is reported only by a pass that starts with the
\* type-annotation depth 0, the angle-bracket depth 0 and both flags unset.
C21_CandidateOnlyOutsideTypeContext ==
    (pc = "op_loop")
        => \A k \in 1..(Len(ScanStates) - 1) :
              (ScanStates[k + 1].occurrences # ScanStates[k].occurrences)
                  => /\ ScanStates[k].type_annotation_depth = 0
                     /\ ScanStates[k].angle_bracket_depth = 0
                     /\ ~ScanStates[k].in_type_alias
                     /\ ~ScanStates[k].in_interface

\* The occurrences of occs that start at byte `from` or later, as offsets
\* from `from`.
OccurrencesFrom(occs, from) ==
    LET keep == SelectSeq(occs, LAMBDA o : o.byte_start >= from)
    IN  [k \in 1..Len(keep) |->
            [op |-> keep[k].op,
             byte_start |-> keep[k].byte_start - from,
             byte_end |-> keep[k].byte_end - from]]

\* C28: the occurrences reported after a live-code `;` are those reported
\* for the text after the `;` scanned on its own.
C28_SemicolonClearsTypeContext ==
    (input.kind = "type" /\ input.sep = <<";", " ">>)
        => LET from == str_len(input.first \o <<";">>)
           IN  OccurrencesFrom(find_operator_occurrences(source, syntax), from)
                 = find_operator_occurrences(<<" ">> \o input.second, syntax)

(***************************************************************************)
(* The template frame stacks (specification SpecFrames)                    *)
(***************************************************************************)
MaxFrameTokens == 3

FrameTokens ==
    { <<BT>>, <<"$", "{">>, <<"{">>, <<"}">>, <<" ", "x", " ", "|", ">", " ", "F", "<",
        "A", ">", " ">>, <<"\\">>, <<"\"">> }

\* What stands around the tokens: nothing, one open interpolation, two.
FrameContexts ==
    { [pre |-> <<>>, post |-> <<>>],
      [pre |-> <<BT>> \o <<"a", "$", "{">>, post |-> <<"}">> \o <<BT>>],
      [pre |-> <<BT>> \o <<"$", "{">> \o <<BT>> \o <<"b", "$", "{", " ", "{">>,
       post |-> <<"}", " ", "}">> \o <<BT>> \o <<"}">> \o <<BT>>] }

FrameHeads == { <<>>, <<"t", "y", "p", "e", " ", "T", "<", "F", "<", "_", ">", ">", " ",
    "=", " ", "F", "<", "A", ">", ";", " ">> }

FrameInputs ==
    { [kind |-> "frames", head |-> h, ctx |-> c, tokens |-> t] :
        h \in FrameHeads, c \in FrameContexts,
        t \in [1..MaxFrameTokens -> FrameTokens] }

RECURSIVE Concat(_, _)
Concat(seqs, k) == IF k > Len(seqs) THEN <<>> ELSE seqs[k] \o Concat(seqs, k + 1)

FrameSource(inp) ==
    inp.head \o inp.ctx.pre \o Concat(inp.tokens, 1) \o inp.ctx.post

InitFrames ==
    \E inp \in FrameInputs : CallPreprocess(FrameSource(inp), SyntaxAll, inp)

NextFrames ==
    \/ PreprocessHkt
    \/ HktDeclarations
    \/ HktUsages
    \/ HktApply
    \/ PreprocessOperators
    \/ OpLoop

SpecFrames == InitFrames /\ [][NextFrames]_vars

\* One pass of a scan over chars took the frame stack from s to t, starting
\* at character index i and ending at index j.
FrameStepOk(chars, s, i, t, j) ==
    LET c == At(chars, i)
    IN  /\ \A k \in 1..Len(t) : t[k] >= 0
        /\ Len(t) < Len(s) => (c = BT /\ Last(s) = 0 /\ t = Pop(s))
        /\ (c = BT /\ s # <<>> /\ Last(s) > 0) => t = Append(s, 0)
        /\ (c = "}" /\ s # <<>> /\ Last(s) = 1) => (t = SetLast(s, 0) /\ j = i + 1)
        /\ (s # <<>> /\ Last(s) = 0 /\ c # BT /\ ~(c = "$" /\ At(chars, i + 1) = "{"))
               => t = s

\* Every pass of the scan whose loop states are trace is as FrameStepOk says.
FrameTraceOk(chars, trace) ==
    \A k \in 1..(Len(trace) - 1) :
        FrameStepOk(chars, trace[k].template_stack, trace[k].i,
                    trace[k + 1].template_stack, trace[k + 1].i)

\* The loop states of find_hkt_declarations with the stack under the field
\* name of the occurrence search.
HandleCharTrace(chars) ==
    LET tr == decl_trace(chars, [i |-> 0, decls |-> <<>>, stack |-> <<>>])
    IN  [k \in 1..Len(tr) |-> [i |-> tr[k].i, template_stack |-> tr[k].stack]]

\* C22: in TemplateState::handle_char and in the stack of the occurrence
\* search a frame is popped only by a backtick seen while it is the top frame
\* at depth 0; a backtick seen while the top frame has depth > 0 pushes a
\* depth-0 frame; no depth is negative; a `}` that ends an interpolation
\* brings the top frame to depth 0, where text is skipped as literal text.
C22_TemplateFramesWellNested ==
    /\ (pc = "hkt_decls") => FrameTraceOk(source, HandleCharTrace(source))
    /\ (pc = "op_loop") => FrameTraceOk(result, scan_trace(result, syntax, ScanInit))

\* The occurrence search has run on a buffer where a backtick is met inside
\* an interpolation and a frame is popped with another one below it.
C22_Witness ==
    LET tr == scan_trace(result, syntax, ScanInit)
    IN  /\ pc = "done"
        /\ input.kind = "frames"
        /\ \E k \in 1..(Len(tr) - 1) :
              /\ Len(tr[k].template_stack) = 2
              /\ Len(tr[k + 1].template_stack) = 3
        /\ \E k \in 1..(Len(tr) - 1) :
              /\ Len(tr[k].template_stack) = 3
              /\ Len(tr[k + 1].template_stack) = 2
        /\ Contains(result, <<"$", "<", "F", ",", " ", "A", ">">>)
        /\ Contains(result, <<"_", "_", "b", "i", "n", "o", "p", "_", "_", "(">>)

(***************************************************************************)
(* Regex bodies and line ends (specification SpecRegex)                    *)
(***************************************************************************)
\* What stands before the `/`: three regex positions and a division.
RegexPres == { <<"z", " ", "=", " ">>, <<"f", "(">>, <<"r", "e", "t", "u", "r", "n",
    " ">>, <<"a", " ">> }

RegexFirsts == { <<"a">>, <<"[", "a">>, <<"a", " ", "|", ">", " ", "b">> }

\* What can stand inside the body: nothing, a raw line end, a backslash
\* before a raw newline, an escaped `/`.
RegexBreaks == { <<>>, <<"\n">>, <<"\r">>, <<"\\", "\n">>, <<"\\", "/">> }

RegexSeconds == { <<"b", "/", "g", ";", " ", "p", " ", "|", ">", " ", "q">>, <<" ", "|",
    ">", " ", "c", "/", " ", ":", ":", " ", "d">>, <<"]", "/", " ", "|", ">", " ",
    "e">> }

RegexInputs ==
    { [kind |-> "regex", pre |-> p, first |-> a, brk |-> b, second |-> c] :
        p \in RegexPres, a \in RegexFirsts, b \in RegexBreaks, c \in RegexSeconds }

RegexSource(inp) == inp.pre \o <<"/">> \o inp.first \o inp.brk \o inp.second

InitRegex ==
    \E inp \in RegexInputs : CallRewriteOperators(RegexSource(inp), SyntaxAll, inp)

NextRegex == OpLoop

SpecRegex == InitRegex /\ [][NextRegex]_vars

\* The pass of the occurrence search from loop state s to loop state t
\* skipped a regex literal: it started at a `/` that opens no comment and
\* moved past more than that character.
SkippedRegex(chars, s, t) ==
    /\ s.template_stack = <<>>
    /\ At(chars, s.i) = "/"
    /\ ~(s.i + 1 < Len(chars) /\ At(chars, s.i + 1) \in {"/", "*"})
    /\ t.i > s.i + 1

\* C23: no span the occurrence search skips as a regex literal holds a raw
\* newline.
C23_RegexNeverSpansNewline ==
    (pc = "op_loop")
        => LET tr == scan_trace(result, syntax, ScanInit)
           IN  \A k \in 1..(Len(tr) - 1) :
                  SkippedRegex(result, tr[k], tr[k + 1])
                      => \A m \in tr[k].i..(tr[k + 1].i - 1) : At(result, m) # "\n"

(***************************************************************************)
(* HKT patterns outside live code (specification SpecLive)                 *)
(***************************************************************************)
\* A declaring statement: its text up to the container and the text after it.
LiveFrames ==
    { [head |-> <<"f", "u", "n", "c", "t", "i", "o", "n", " ", "g", "<", "F", "<", "_",
        ">", ">", "(", ")", " ", "{", " ">>, tail |-> <<" ", "c", "o", "n", "s", "t",
        " ", "v", ":", " ", "F", "<", "B", ">", " ", "=", " ", "w", ";", " ", "}">>],
      [head |-> <<"c", "l", "a", "s", "s", " ", "C", "<", "F", "<", "_", ">", ">", " ",
          "{", " ", "m", "(", ")", " ", "{", " ">>, tail |-> <<" ", "r", "e", "t", "u",
          "r", "n", " ", "x", " ", "a", "s", " ", "F", "<", "B", ">", ";", " ", "}", " ",
          "}">>] }

\* The region that holds the pattern; `live` tells whether the pattern is in
\* live code.
LiveContainers ==
    { [construct |-> "line comment",  open |-> <<"/", "/", " ">>,
              close |-> <<"\n">>,   live |-> FALSE],
      [construct |-> "block comment", open |-> <<"/", "*", " ">>,       close |-> <<" ",
          "*", "/">>,    live |-> FALSE],
      [construct |-> "string",        open |-> <<"\"">>,
               close |-> <<"\"">> \o <<";">>, live |-> FALSE],
      [construct |-> "string",        open |-> <<"'">>,         close |-> <<"'", ";">>,
              live |-> FALSE],
      [construct |-> "template text", open |-> <<BT>>,
                 close |-> <<BT>> \o <<";">>, live |-> FALSE],
      [construct |-> "regex",         open |-> <<"z", " ", "=", " ", "/">>,
              close |-> <<"/", ".", "t", "e", "s", "t", "(", "s", ")", ";">>,
          live |-> FALSE],
      [construct |-> "code",          open |-> <<"l", "e", "t", " ", "u", ":", " ">>,
            close |-> <<";">>,      live |-> TRUE] }

LivePatterns == { <<"F", "<", "A", ">">>, <<"G", "<", "_", ">">>, <<"F", "<", "_", ">">>,
    <<"F", "<", "G", "<", "_", ">", ">">> }

LiveInputs ==
    { [kind |-> "live", frame |-> f, box |-> c, pattern |-> p] :
        f \in LiveFrames, c \in LiveContainers, p \in LivePatterns }

LiveBox(inp) == inp.box.open \o inp.pattern \o inp.box.close

LiveSource(inp) == inp.frame.head \o LiveBox(inp) \o inp.frame.tail

InitLive == \E inp \in LiveInputs : CallRewriteHkt(LiveSource(inp), inp)

NextLive == HktDeclarations \/ HktUsages \/ HktApply

SpecLive == InitLive /\ [][NextLive]_vars

\* C24: a Name<_> or Name<Args> pattern inside a line comment, block comment,
\* string literal, regex literal or template-literal text is recorded neither
\* as a declaration nor as a usage, and rewrite_hkt returns it unchanged.
C24_HktMatchesOnlyLiveCode ==
    (input.kind = "live" /\ ~input.box.live)
        => LET from == str_len(input.frame.head)
               to == str_len(input.frame.head \o LiveBox(input))
           IN  /\ \A k \in 1..Len(decls) :
                     ~(from <= decls[k].remove_start /\ decls[k].remove_start < to)
               /\ \A k \in 1..Len(usages) :
                     ~(from <= usages[k].ident_start /\ usages[k].ident_start < to)
               /\ (pc = "done")
                     => \E a \in 0..Len(result) :
                           /\ a + Len(LiveBox(input)) <= Len(result)
                           /\ SubSeq(result, a + 1, a + Len(LiveBox(input))) = LiveBox(input)
               /\ pc # "panicked"

(***************************************************************************)
(* Inputs: malformed and unusual sources (specification SpecMal)           *)
(***************************************************************************)
\* Live code before an unterminated construct; it ends where an expression
\* is expected, so that a `/` there is in regex position.
MalPrefixes ==
    { <<"z", " ", "=", " ">>,
      <<"a", " ", "|", ">", " ", "f", ";", " ", "z", " ", "=", " ">>,
      <<"t", "y", "p", "e", " ", "T", "<", "F", "<", "_", ">", ">", " ", "=", " ", "F",
          "<", "A", ">", ";", " ", "p", " ", ":", ":", " ", "q", ";", " ", "z", " ", "=",
          " ">>,
      <<"c", "o", "n", "s", "t", " ", "U+00E9", " ", "=", " ", "U+4E2D", " ", "|", ">",
          " ", "f", ";", " ", "z", " ", "=", " ">> }

\* The opening delimiter of a construct that is never closed.
MalOpeners ==
    { [construct |-> "string", text |-> <<"\"">>],
      [construct |-> "string", text |-> <<"'">>],
      [construct |-> "comment", text |-> <<"/", "*">>],
      [construct |-> "template", text |-> <<BT>>],
      [construct |-> "regex", text |-> <<"/">>] }

\* The text after the opening delimiter: no newline and nothing that closes
\* the construct.
MalBodies ==
    { <<" ", "x", " ", "|", ">", " ", "y">>,
      <<"U+00E9", " ", "p", " ", ":", ":", " ", "q", " ", "*", " ", "r">>,
      <<" ", "G", "<", "_", ">", " ", "=", " ", "G", "<", "A", ">", " ", "|", ">", " ",
          "F", "<", "B", ">">> }

\* Sources in which declarations and usages overlap, and wide characters.
MalArrangements ==
    { <<"i", "n", "t", "e", "r", "f", "a", "c", "e", " ", "N", "a", "t", "<", "F", "<",
        "_", ">", ",", " ", "G", "<", "_", ">", ">", " ", "{", " ", "r", "u", "n", ":",
        " ", "F", "<", "G", "<", "_", ">", ">", " ", "}">>,
      <<"T", "<", "T", "<", "_", ">", ">">>,
      <<"i", "n", "t", "e", "r", "f", "a", "c", "e", " ", "F", "<", "F", "<", "_", ">",
          ">", " ", "{", " ", "a", ":", " ", "F", "<", "A", ">", " ", "}">>,
      <<"c", "l", "a", "s", "s", " ", "M", "<", "F", "<", "_", ">", ">", " ", "e", "x",
          "t", "e", "n", "d", "s", " ", "B", "<", "F", "<", "_", ">", ">", " ", "{", " ",
          "m", ":", " ", "F", "<", "U+00E9", ">", " ", "|", ">", " ", "f", " ", "}">>,
      <<"U+00E9", "<", "_", ">", " ", "F", "<", "_", ">", " ", "F", "<", "U+4E2D", ">",
          " ", ":", ":", " ", "U+4E2D">> }

MalInputs ==
    { [kind |-> "unterminated", pre |-> p, opener |-> o, body |-> b] :
        p \in MalPrefixes, o \in MalOpeners, b \in MalBodies }
    \cup { [kind |-> "arrangement", pre |-> a,
            opener |-> [construct |-> "none", text |-> <<>>], body |-> <<>>] :
             a \in MalArrangements }

MalSource(inp) == inp.pre \o inp.opener.text \o inp.body

InitMal ==
    \E inp \in MalInputs, syn \in Configurations :
        CallPreprocess(MalSource(inp), syn, inp)

NextMal ==
    \/ PreprocessHkt
    \/ HktDeclarations
    \/ HktUsages
    \/ HktApply
    \/ PreprocessOperators
    \/ OpLoop

SpecMal == InitMal /\ [][NextMal]_vars

\* C12: preprocess returns a text for every input and configuration: no
\* pass panics or slices the buffer out of range.
C12_PreprocessNeverPanics == pc # "panicked"

\* No operator occurrence, declaration or usage of src is reported at or
\* after the byte offset open.
NothingReportedFrom(src, syn, open) ==
    LET occs == find_operator_occurrences(src, syn)
        ds == find_hkt_declarations(src)
        us == find_hkt_usages(src, ds)
    IN  /\ \A k \in 1..Len(occs) : occs[k].byte_start < open
        /\ \A k \in 1..Len(ds) : ds[k].remove_start < open
        /\ \A k \in 1..Len(us) : us[k].ident_start < open

C25_ReplacementsDisjointDescending ==
    (pc = "hkt_apply")
        => LET rs == hkt_replacements(decls, usages)
           IN  \A a \in 1..Len(rs) : \A b \in 1..Len(rs) :
                  a < b => rs[b].end <= rs[a].start

(***************************************************************************)
(* The number of substitutions (specification SpecCtx)                     *)
(***************************************************************************)
\* The number of |> and :: character pairs of s.
OperatorPairs(s) == Count(s, <<"|", ">">>) + Count(s, <<":", ":">>)

\* The number of |> and :: character pairs of s that stand between two
\* double quotes.
QuotedPairs(s) ==
    Count(s, <<"\"">> \o <<"|", ">">> \o <<"\"">>) + Count(s, <<"\"">> \o <<":",
        ":">> \o <<"\"">>)

\* The substitutions the loop has made so far.
Substitutions == IF pc = "done" THEN iterations - 1 ELSE iterations

\* C26: the loop makes at most as many substitutions as the input has |> and
\* :: character pairs.  A substitution creates no pair and puts one more pair
\* between quotes, no candidate occurrence is a pair the loop has quoted, and
\* for an input with fewer pairs than the cap the loop ends with no
\* occurrence left.
C26_SubstitutionsBoundedByPairs ==
    (fn = "rewrite_operators" /\ pc \in {"op_loop", "done"}
        /\ OperatorPairs(source) < max_iterations)
        => LET occs == find_operator_occurrences(result, syntax)
           IN  /\ Substitutions <= OperatorPairs(source)
               /\ OperatorPairs(result) = OperatorPairs(source)
               /\ QuotedPairs(result) = QuotedPairs(source) + Substitutions
               /\ Len(occs) <= OperatorPairs(result) - Substitutions
               /\ pc = "done" => occs = <<>>

\* The loop has ended after two substitutions on an input that holds one
\* more operator pair, inside a literal.
C26_Witness ==
    /\ pc = "done"
    /\ fn = "rewrite_operators"
    /\ iterations = 3
    /\ QuotedPairs(result) = 2
    /\ OperatorPairs(source) > 2

(***************************************************************************)
(* Identifiers that end with a declared name (specification SpecIdent)     *)
(***************************************************************************)
\* What stands directly before the name: nothing, or identifier characters.
IdentPrefixes == { <<>>, <<"m", "a", "p">>, <<"x">>, <<"_">>, <<"$">>, <<"G">>, <<"a",
    "1">> }

IdentArgs == { <<"A">>, <<"A", ",", " ", "B">>, <<"n", "u", "m", "b", "e", "r">> }

IdentNames == { <<"F">>, <<"B", "a", "r">> }

\* "usage": the prefixed name is used inside the scope of a declaration of
\* the name.  "declaration": the prefixed name carries the placeholder.
IdentInputs ==
    { [kind |-> "ident", form |-> f, pfx |-> p, name |-> n, args |-> a] :
        f \in {"usage", "declaration"}, p \in IdentPrefixes, n \in IdentNames,
        a \in IdentArgs }

IdentSource(inp) ==
    IF inp.form = "usage"
    THEN <<"i", "n", "t", "e", "r", "f", "a", "c", "e", " ", "X",
        "<">> \o inp.name \o <<"<", "_", ">", ">", " ", "{",
        " ">> \o inp.pfx \o inp.name
           \o <<"<">> \o inp.args \o <<">", "(", ")", ":", " ">> \o inp.name \o <<"<",
               "B", ">", ";", " ", "}">>
    ELSE <<"t", "y", "p", "e", " ", "T", "<">> \o inp.pfx \o inp.name \o <<"<", "_", ">",
        ">", " ", "=", " ">> \o inp.name
           \o <<"<">> \o inp.args \o <<">", ";">>

\* What rewrite_hkt is to return when matching is on whole identifiers.
IdentWant(inp) ==
    IF inp.form = "usage"
    THEN <<"i", "n", "t", "e", "r", "f", "a", "c", "e", " ", "X",
        "<">> \o inp.name \o <<">", " ", "{", " ">>
           \o (IF inp.pfx = <<>> THEN Rewritten(inp.name, inp.args)
               ELSE inp.pfx \o inp.name \o <<"<">> \o inp.args \o <<">">>)
           \o <<"(", ")", ":", " ">> \o Rewritten(inp.name, <<"B">>) \o <<";", " ",
               "}">>
    ELSE IF inp.pfx = <<>>
    THEN <<"t", "y", "p", "e", " ", "T", "<">> \o inp.name \o <<">", " ", "=",
        " ">> \o Rewritten(inp.name, inp.args) \o <<";">>
    ELSE IF inp.pfx = <<"G">>
    THEN <<"t", "y", "p", "e", " ", "T", "<", "G">> \o inp.name \o <<">", " ", "=",
        " ">> \o inp.name \o <<"<">> \o inp.args \o <<">", ";">>
    ELSE IdentSource(inp)

InitIdent == \E inp \in IdentInputs : CallRewriteHkt(IdentSource(inp), inp)

NextIdent == HktDeclarations \/ HktUsages \/ HktApply

SpecIdent == InitIdent /\ [][NextIdent]_vars

\* C29: HKT matching is on whole identifiers: an identifier that ends with a
\* declared name is left unchanged inside the scope of the declaration, and
\* a placeholder after an identifier that ends with a name declares nothing
\* under that name.
C29_WholeIdentifiersOnly ==
    (input.kind = "ident")
        => /\ \A k \in 1..Len(decls) :
                 (input.form = "declaration" /\ input.pfx # <<>>)
                     => decls[k].name # input.name
           /\ pc # "panicked"
           /\ (pc = "done") => result = IdentWant(input)

(***************************************************************************)
(* Usages nested in type arguments (specification SpecNest)                *)
(***************************************************************************)
\* A declaration of F and G, and a hole for a type in their scope.
NestFrames ==
    { [open |-> <<"t", "y", "p", "e", " ", "T", "<", "F", "<", "_", ">", ",", " ", "G",
        "<", "_", ">", ">", " ", "=", " ">>, close |-> <<";">>],
      [open |-> <<"i", "n", "t", "e", "r", "f", "a", "c", "e", " ", "X", "<", "F", "<",
          "_", ">", ",", " ", "G", "<", "_", ">", ">", " ", "{", " ", "m", ":", " ">>,
          close |-> <<";", " ", "n", ":", " ", "G", "<", "B", ">", ";", " ", "}">>],
      [open |-> <<"f", "u", "n", "c", "t", "i", "o", "n", " ", "g", "<", "F", "<", "_",
          ">", ",", " ", "G", "<", "_", ">", ">", "(", "x", ":", " ">>, close |-> <<")",
          " ", "{", "}">>] }

\* The generic the type starts with: declared (F, G) or not (Array), or none.
NestOuters == { <<>>, <<"F">>, <<"G">>, <<"A", "r", "r", "a", "y">> }

NestInners == { <<"A">>, <<"F", "<", "A", ">">>, <<"G", "<", "A", ">">>, <<"A", ",", " ",
    "F", "<", "B", ">">>, <<"A", "r", "r", "a", "y", "<", "F", "<", "A", ">", ">">> }

NestInputs ==
    { [kind |-> "nest", frame |-> fr, outer |-> o, inner |-> n] :
        fr \in NestFrames, o \in NestOuters, n \in NestInners }

NestSource(inp) ==
    inp.frame.open
        \o (IF inp.outer = <<>> THEN inp.inner
            ELSE inp.outer \o <<"<">> \o inp.inner \o <<">">>)
        \o inp.frame.close

InitNest == \E inp \in NestInputs : CallRewriteHkt(NestSource(inp), inp)

NextNest == HktDeclarations \/ HktUsages \/ HktApply

SpecNest == InitNest /\ [][NextNest]_vars

\* The 0-based positions of buf where a whole identifier that is one of the
\* names is directly followed by `<`.
NameWithArguments(buf, names) ==
    { p \in 0..(Len(buf) - 1) :
        \E n \in names :
            /\ p + Len(n) < Len(buf)
            /\ Slice(buf, p, p + Len(n)) = n
            /\ At(buf, p + Len(n)) = "<"
            /\ (p > 0 => ~is_ident_char(At(buf, p - 1))) }

\* C30: after rewrite_hkt no declared name followed by angle-bracket
\* arguments is left in the scope of its declaration, a reference nested
\* in the type arguments of another generic included.
C30_NoUsageLeftInScope ==
    (pc = "done" /\ input.kind = "nest")
        => NameWithArguments(result, { decls[k].name : k \in 1..Len(decls) }) = {}

(***************************************************************************)
(* preprocess applied to its own output (specification SpecIdem)           *)
(***************************************************************************)
NextIdem ==
    \/ PreprocessHkt
    \/ HktDeclarations
    \/ HktUsages
    \/ HktApply
    \/ PreprocessOperators
    \/ OpLoop
    \/ Reapply

SpecIdem == InitPre /\ [][NextIdem]_vars

\* The number of double quotes among the first k characters of s is even.
OutsideQuotes(s, k) ==
    Cardinality({ m \in 1..k : s[m] = "\"" }) % 2 = 0

\* s holds no |> and no :: outside double-quoted strings and no placeholder
\* bracket.
NoCustomSyntax(s) ==
    /\ \A k \in 1..(Len(s) - 1) :
           (SubSeq(s, k, k + 1) \in { <<"|", ">">>, <<":", ":">> }) => ~OutsideQuotes(s,
               k)
    /\ ~Contains(s, <<"<", "_">>)

\* C13: preprocess applied to an output that holds no custom operator and no
\* placeholder returns it unchanged; and rewrite_operators applied to the
\* output of a loop that ended below the cap returns it unchanged.
C13_PreprocessIdempotent ==
    /\ (pc = "done" /\ input.kind = "again" /\ NoCustomSyntax(source))
        => result = source
    /\ (pc = "done" /\ (syntax.pipeline \/ syntax.cons) /\ iterations <= max_iterations)
        => rewrite_operators(result, syntax) = result

\* The second call has returned, on the output of a first call that rewrote
\* declarations, usages and operators.
C13_Witness ==
    /\ pc = "done"
    /\ input.kind = "again"
    /\ syntax = SyntaxAll
    /\ NoCustomSyntax(source)
    /\ Contains(source, <<"$", "<">>)
    /\ Contains(source, <<"_", "_", "b", "i", "n", "o", "p", "_", "_", "(", "_", "_",
        "b", "i", "n", "o", "p", "_", "_", "(">>)
    /\ source # input.text

(***************************************************************************)
(* Operators in property values and other bracketed positions              *)
(* (specification SpecObj)                                                 *)
(***************************************************************************)
ObjForms ==
    { [open |-> <<"c", "o", "n", "s", "t", " ", "o", " ", "=", " ", "{", " ", "a", ":",
        " ">>, close |-> <<" ", "}", ";">>],
      [open |-> <<"f", "(", "{", " ", "k", ":", " ">>,         close |-> <<" ", "}",
          ")">>],
      [open |-> <<"c", "o", "n", "s", "t", " ", "o", " ", "=", " ", "[">>,
              close |-> <<"]", ";">>],
      [open |-> <<"g", "(">>,              close |-> <<")">>],
      [open |-> <<"z", " ", "=", " ", "c", " ", "?", " ", "a", " ", ":", " ">>,
             close |-> <<";">>] }

ObjExprs ==
    { <<"x", " ", "|", ">", " ", "f">>, <<"1", " ", ":", ":", " ", "x", "s">>, <<"x",
        " ", "|", ">", " ", "f", " ", "|", ">", " ", "g">>, <<"a", " ", ":", ":", " ",
        "b", " ", "|", ">", " ", "f">> }

ObjInputs ==
    { [kind |-> "obj", form |-> fm, expr |-> e] : fm \in ObjForms, e \in ObjExprs }

ObjSource(inp) == inp.form.open \o inp.expr \o inp.form.close

InitObj ==
    \E inp \in ObjInputs, syn \in Configurations :
        CallPreprocess(ObjSource(inp), syn, inp)

NextObj ==
    \/ PreprocessHkt
    \/ HktDeclarations
    \/ PreprocessOperators
    \/ OpLoop

SpecObj == InitObj /\ [][NextObj]_vars

\* The positions of s where a |> or a :: stands outside double-quoted text.
LiveOperators(s) ==
    { k \in 1..(Len(s) - 1) :
        /\ SubSeq(s, k, k + 1) \in { <<"|", ">">>, <<":", ":">> }
        /\ OutsideQuotes(s, k) }

\* C14: with every feature enabled and the cap not reached, no |> and no ::
\* remains in live code of the output of preprocess.
C14_OutputHasOnlyStandardSyntax ==
    (pc = "done" /\ fn = "preprocess" /\ syntax = SyntaxAll
        /\ iterations <= max_iterations)
        => LiveOperators(result) = {}

====
